---- MODULE Spec2Model ----
(***************************************************************************)
(* Gap2Growth: downtime detection, activity recommendation and the         *)
(* real-time detector, modelled from app/services/*.py and                 *)
(* app/utils/database.py.                                                  *)
(*                                                                         *)
(* Times of day are seconds since midnight.  A time *text* (what a         *)
(* timetable row stores) is a record [fmt, h, m, s, pm] standing for the   *)
(* string in one of the formats parse_time tries, or for a string that     *)
(* matches none of them.                                                   *)
(***************************************************************************)
EXTENDS Integers, Sequences, FiniteSets, TLC

VARIABLES
    users,                \* table users: set of [id, role, course]
    timetable,            \* table timetables, in the order the query returns it
    activities,           \* table activities: sequence of rows
    activity_logs,        \* table activity_logs: sequence of rows, oldest first
    notifications,        \* table notifications: sequence of rows, oldest first
    clock,                \* wall clock: [date, time]
    active_sessions,      \* RealTimeDetector.active_sessions
    last_timetable_state, \* RealTimeDetector.last_timetable_state
    threads,              \* executions of _detect_current_free_time
    detector,             \* RealTimeDetector.detection_running and
                          \* detection_thread
    out,                  \* the last call applied and what it returned
    prev                  \* the call before that (same shape as out)

vars == <<users, timetable, activities, activity_logs, notifications, clock,
          active_sessions, last_timetable_state, threads, detector, out, prev>>

----------------------------------------------------------------------------
(* Bounds of the model *)

MaxEntries == 3
MaxDate == 7
MaxDelay == 2
MaxActivities == 3

(* Program constants *)

DOWNTIME_THRESHOLD == 30

\* RealTimeDetector.__init__, and the detector once its loop is started;
\* detection_thread is the number of the thread, 0 for None
NotStarted == [detection_running |-> FALSE, detection_thread |-> 0]
Started == [detection_running |-> TRUE, detection_thread |-> 1]

\* Python's None where a time of day is expected
Null == 0 - 1
NoCall == [op |-> "none"]

----------------------------------------------------------------------------
(* Strings: lower() on the strings the model uses *)

Lower(s) ==
    CASE s = "Monday" -> "monday"
      [] s = "Tuesday" -> "tuesday"
      [] s = "Wednesday" -> "wednesday"
      [] s = "Thursday" -> "thursday"
      [] s = "Friday" -> "friday"
      [] s = "Saturday" -> "saturday"
      [] s = "Sunday" -> "sunday"
      [] s = "CS" -> "cs"
      [] s = "Math" -> "math"
      [] s = "General" -> "general"
      [] s = "Wellness" -> "wellness"
      [] s = "Learning" -> "learning"
      [] s = "Skill" -> "skill"
      [] s = "Scheduled" -> "scheduled"
      [] s = "Cancelled" -> "cancelled"
      [] OTHER -> s

----------------------------------------------------------------------------
(* Time texts and parse_time / strftime *)

HM(h, m) == [fmt |-> "HM", h |-> h, m |-> m, s |-> 0, pm |-> FALSE]
HMS(h, m, s) == [fmt |-> "HMS", h |-> h, m |-> m, s |-> s, pm |-> FALSE]
AMPM(h, m, pm) == [fmt |-> "AMPM", h |-> h, m |-> m, s |-> 0, pm |-> pm]
BadText == [fmt |-> "BAD", h |-> 0, m |-> 0, s |-> 0, pm |-> FALSE]

T(h, m) == h * 3600 + m * 60

\* '%H:%M:%S', then '%H:%M', then '%I:%M %p'; None when none matches
parse_time(txt) ==
    CASE txt.fmt = "HMS" -> txt.h * 3600 + txt.m * 60 + txt.s
      [] txt.fmt = "HM" -> txt.h * 3600 + txt.m * 60
      [] txt.fmt = "AMPM" ->
            ((txt.h % 12) + (IF txt.pm THEN 12 ELSE 0)) * 3600 + txt.m * 60
      [] OTHER -> Null

\* t.strftime('%H:%M'): the seconds are dropped
strftime_HM(t) == HM(t \div 3600, (t \div 60) % 60)

\* The characters of a text, as codes ordered like the characters:
\* ' ' < '0'..'9' < ':' < letters
Render(txt) ==
    LET d2(n) == <<1 + (n \div 10), 1 + (n % 10)>>
    IN CASE txt.fmt = "HM" -> d2(txt.h) \o <<11>> \o d2(txt.m)
         [] txt.fmt = "HMS" ->
               d2(txt.h) \o <<11>> \o d2(txt.m) \o <<11>> \o d2(txt.s)
         [] txt.fmt = "AMPM" ->
               d2(txt.h) \o <<11>> \o d2(txt.m) \o <<0>>
                   \o <<(IF txt.pm THEN 13 ELSE 12), 14>>
         [] OTHER -> <<15, 16, 17>>

RECURSIVE LexLeq(_, _)
\* a <= b for Python str (and the store's text) comparison
LexLeq(a, b) ==
    IF a = <<>> THEN TRUE
    ELSE IF b = <<>> THEN FALSE
    ELSE IF Head(a) # Head(b) THEN Head(a) < Head(b)
    ELSE LexLeq(Tail(a), Tail(b))

TextLeq(x, y) == LexLeq(Render(x), Render(y))

\* calculate_gap_minutes: end - start in minutes, negative when end < start.
\* It is a float in the source; here it is kept exact, in seconds (60ths of
\* a minute).
calculate_gap_unsigned(start_time, end_time) ==
    IF end_time < start_time THEN start_time - end_time
    ELSE end_time - start_time

calculate_gap_minutes(start_time, end_time) ==
    IF end_time < start_time
    THEN (start_time - end_time) * (-1)
    ELSE end_time - start_time

\* gap_minutes >= DOWNTIME_THRESHOLD
MeetsThreshold_strict(gap) == gap > DOWNTIME_THRESHOLD * 60
MeetsThreshold(gap) == gap >= DOWNTIME_THRESHOLD * 60

\* int(gap_minutes): truncation toward zero
IntMinutes(gap) == IF gap >= 0 THEN gap \div 60 ELSE 0 - ((0 - gap) \div 60)

is_time_in_range(check_time, start_time, end_time) ==
    start_time <= check_time /\ check_time < end_time

----------------------------------------------------------------------------
(* Clock reads.  A call reads the clock several times; rd describes what   *)
(* the reads of one call return: the reads numbered below rd.at return     *)
(* rd.t1, the later ones rd.t2 >= rd.t1.                                   *)

Read(rd, k) == IF k < rd.at THEN rd.t1 ELSE rd.t2
Steady(t) == [t1 |-> t, t2 |-> t, at |-> 1]

DayNames == <<"Monday", "Tuesday", "Wednesday", "Thursday", "Friday",
              "Saturday", "Sunday">>
\* datetime.now().strftime('%A'); date 0 is a Monday
get_day_name(date) == DayNames[(date % 7) + 1]

\* k-th read is the one for is_current, k+1-th the one for is_upcoming
_is_slot_current(start_time, end_time, rd, k) ==
    is_time_in_range(Read(rd, k), start_time, end_time)

_is_slot_upcoming(start_time, rd, k) == start_time > Read(rd, k)

----------------------------------------------------------------------------
(* The store (app/utils/database.py)                                       *)

SeqToSet(q) == {q[i] : i \in DOMAIN q}

get_users_by_role(role) == {u \in users : u.role = role}

get_users_by_course(course) ==
    IF course = "" THEN {}
    ELSE {u \in users : u.course # "" /\ Lower(u.course) = Lower(course)}

\* alphabetical rank of a day text, the order .order('day') sorts by
DayKey(d) ==
    CASE d = "Friday" -> 1 [] d = "Monday" -> 2 [] d = "Saturday" -> 3
      [] d = "Sunday" -> 4 [] d = "Thursday" -> 5 [] d = "Tuesday" -> 6
      [] d = "Wednesday" -> 7 [] OTHER -> 8

\* row a may come before row b in .order('day').order('start_time')
DbLeq(a, b) ==
    \/ DayKey(a.day) < DayKey(b.day)
    \/ /\ DayKey(a.day) = DayKey(b.day)
       /\ TextLeq(a.start_time, b.start_time)

DbOrdered(q) == \A i \in 1..(Len(q) - 1) : DbLeq(q[i], q[i + 1])

\* the fallback: rows of the course itself when the course has no instructor
get_timetable_by_course(course) ==
    LET instructor_ids ==
            {u.id : u \in {v \in get_users_by_course(course) :
                               v.role \in {"teacher", "admin"}}}
    IN IF instructor_ids = {}
       THEN SelectSeq(timetable,
                LAMBDA e : e.course # "" /\ Lower(e.course) = Lower(course))
       ELSE SelectSeq(timetable, LAMBDA e : e.teacher_id \in instructor_ids)

----------------------------------------------------------------------------
(* Downtime detection (app/services/downtime_service.py)                   *)

RECURSIVE InsertStable(_, _)
\* x = [k, v] goes after every element whose key is <= its own; keys are
\* sequences compared like Python compares tuples and strings
InsertStable(q, x) ==
    IF q = <<>> THEN <<x>>
    ELSE IF LexLeq(Head(q).k, x.k)
         THEN <<Head(q)>> \o InsertStable(Tail(q), x)
         ELSE <<x>> \o q

RECURSIVE SortPairs(_)
SortPairs(q) ==
    IF q = <<>> THEN <<>>
    ELSE InsertStable(SortPairs(SubSeq(q, 1, Len(q) - 1)), q[Len(q)])

\* list.sort(key=...): ascending and stable; keys[i] is the key of q[i]
SortStable(q, keys) ==
    LET sorted == SortPairs([i \in DOMAIN q |-> [k |-> keys[i], v |-> q[i]]])
    IN [i \in DOMAIN sorted |-> sorted[i].v]

\* parse_time(x.get('start_time', '00:00')) or time(0, 0)
StartKey(e) ==
    IF parse_time(e.start_time) = Null THEN <<0>>
    ELSE <<parse_time(e.start_time)>>

ScheduledOn_any_status(tt, day) ==
    SelectSeq(tt, LAMBDA e : Lower(e.day) = Lower(day))
ScheduledOn(tt, day) ==
    SelectSeq(tt, LAMBDA e : Lower(e.day) = Lower(day)
                             /\ Lower(e.status) = "scheduled")

CancelledOn_any_day(tt, day) ==
    SelectSeq(tt, LAMBDA e : Lower(e.status) = "cancelled")
CancelledOn(tt, day) ==
    SelectSeq(tt, LAMBDA e : Lower(e.day) = Lower(day)
                             /\ Lower(e.status) = "cancelled")

FreeSlot(course, day, s, e, gap, reason, rd, k) ==
    [course |-> course, day |-> day,
     start_time |-> strftime_HM(s), end_time |-> strftime_HM(e),
     duration_minutes |-> IntMinutes(gap), reason |-> reason,
     is_current |-> _is_slot_current(s, e, rd, k),
     is_upcoming |-> _is_slot_upcoming(s, rd, k + 1)]

RECURSIVE GapScan(_, _, _, _, _, _, _)
\* the loop over range(len(day_entries) - 1); k0 clock reads were made
\* before the call
GapScan(es, i, acc, course, day, rd, k0) ==
    IF i > Len(es) - 1 THEN acc
    ELSE LET current_end == parse_time(es[i].end_time)
             next_start == parse_time(es[i + 1].start_time)
             gap_minutes == calculate_gap_minutes(current_end, next_start)
             emit == /\ current_end # Null
                     /\ next_start # Null
                     /\ MeetsThreshold(gap_minutes)
         IN GapScan(es, i + 1,
                IF emit
                THEN Append(acc, FreeSlot(course, day, current_end,
                                 next_start, gap_minutes, "timetable_gap",
                                 rd, k0 + 2 * Len(acc) + 1))
                ELSE acc,
                course, day, rd, k0)

detect_downtime_for_course(course, day, rd, k0) ==
    LET tt == get_timetable_by_course(course)
        on_day == ScheduledOn(tt, day)
        day_entries ==
            SortStable(on_day, [i \in DOMAIN on_day |-> StartKey(on_day[i])])
    IN GapScan(day_entries, 1, <<>>, course, day, rd, k0)

RECURSIVE CancelScan(_, _, _, _, _, _, _)
CancelScan(es, i, acc, course, day, rd, k0) ==
    IF i > Len(es) THEN acc
    ELSE LET start_time == parse_time(es[i].start_time)
             end_time == parse_time(es[i].end_time)
             duration == calculate_gap_minutes(start_time, end_time)
             emit == /\ start_time # Null
                     /\ end_time # Null
                     /\ MeetsThreshold(duration)
         IN CancelScan(es, i + 1,
                IF emit
                THEN Append(acc, FreeSlot(course, day, start_time, end_time,
                                 duration, "class_cancelled",
                                 rd, k0 + 2 * Len(acc) + 1))
                ELSE acc,
                course, day, rd, k0)

detect_cancelled_class_slots(course, day, rd, k0) ==
    CancelScan(CancelledOn(get_timetable_by_course(course), day), 1, <<>>,
               course, day, rd, k0)

\* all_slots.sort(key=lambda x: x.get('start_time', '00:00')): by the text
detect_all_unsorted(course, day, rd, k0) ==
    detect_downtime_for_course(course, day, rd, k0)
        \o detect_cancelled_class_slots(course, day, rd, k0)

detect_all_downtime_for_course(course, day, rd, k0) ==
    LET gap_slots == detect_downtime_for_course(course, day, rd, k0)
        cancelled_slots ==
            detect_cancelled_class_slots(course, day, rd,
                                         k0 + 2 * Len(gap_slots))
        all_slots == gap_slots \o cancelled_slots
    IN SortStable(all_slots,
           [i \in DOMAIN all_slots |-> Render(all_slots[i].start_time)])

RECURSIVE SumDurations(_)
SumDurations(slots) ==
    IF slots = <<>> THEN 0
    ELSE Head(slots).duration_minutes + SumDurations(Tail(slots))

WeekDays_no_sunday == SubSeq(DayNames, 1, 6)
\* the list `days` of get_weekly_free_time_summary
WeekDays == DayNames

RECURSIVE WeeklyLoop(_, _, _, _, _)
\* for day in days: summary[day] = {...}
WeeklyLoop(days, summary, course, rd, k0) ==
    IF days = <<>> THEN summary
    ELSE LET day == Head(days)
             slots == detect_all_downtime_for_course(course, day, rd, k0)
             entry == [slots |-> slots,
                       total_free_minutes |-> SumDurations(slots),
                       slot_count |-> Len(slots)]
         IN WeeklyLoop(Tail(days),
                [d \in DOMAIN summary \cup {day} |->
                     IF d = day THEN entry ELSE summary[d]],
                course, rd, k0 + 2 * Len(slots))

get_weekly_free_time_summary(course, rd) ==
    WeeklyLoop(WeekDays, <<>>, course, rd, 0)

----------------------------------------------------------------------------
(* Timetable rows the model draws from.  A row's id is its index here.     *)

RowShapes == <<
    [day |-> "Monday", start_time |-> HM(9, 0), end_time |-> HM(10, 0)],
    [day |-> "Monday", start_time |-> HM(10, 30), end_time |-> HM(11, 0)],
    [day |-> "Monday", start_time |-> HM(10, 29), end_time |-> HM(11, 0)],
    [day |-> "Monday", start_time |-> HM(11, 0), end_time |-> HM(12, 0)],
    [day |-> "Monday", start_time |-> HM(10, 0), end_time |-> HM(10, 29)],
    [day |-> "Monday", start_time |-> HM(9, 30), end_time |-> HM(11, 30)],
    [day |-> "monday", start_time |-> HMS(12, 0, 30),
                       end_time |-> AMPM(1, 0, TRUE)],
    [day |-> "Monday", start_time |-> BadText, end_time |-> HM(9, 0)],
    [day |-> "Tuesday", start_time |-> HM(9, 0), end_time |-> HM(10, 0)],
    [day |-> "Monday", start_time |-> HM(23, 0),
                       end_time |-> HMS(23, 59, 59)],
    \* rows 11..16: Monday and Tuesday of DEMO_TIMETABLE
    [day |-> "Monday", start_time |-> HM(9, 0), end_time |-> HM(10, 0)],
    [day |-> "Monday", start_time |-> HM(11, 0), end_time |-> HM(12, 0)],
    [day |-> "Monday", start_time |-> HM(14, 0), end_time |-> HM(15, 0)],
    [day |-> "Tuesday", start_time |-> HM(10, 0), end_time |-> HM(11, 0)],
    [day |-> "Tuesday", start_time |-> HM(13, 0), end_time |-> HM(14, 0)],
    [day |-> "Tuesday", start_time |-> HM(15, 0), end_time |-> HM(16, 0)],
    \* row 17: the end is before the start (the form checks neither)
    [day |-> "Monday", start_time |-> HM(11, 30), end_time |-> HM(10, 0)] >>

\* the rows each specification draws from
DetectShapes == 1..9
ClockShapes == {1, 2, 4, 10}

Statuses == {"scheduled", "cancelled", "rescheduled"}

Row(i, status) ==
    [id |-> i, teacher_id |-> "t1", course |-> "CS",
     day |-> RowShapes[i].day, start_time |-> RowShapes[i].start_time,
     end_time |-> RowShapes[i].end_time, status |-> status]

InsertAt(q, pos, x) == SubSeq(q, 1, pos - 1) \o <<x>> \o SubSeq(q, pos, Len(q))

DetectUsers ==
    {[id |-> "t1", role |-> "teacher", course |-> "CS"],
     [id |-> "s1", role |-> "student", course |-> "CS"]}

DetectClocks == {T(10, 0), T(10, 15) + 30}
QueryCourses == {"CS", "Math"}
QueryDays == {"Monday", "Tuesday", "Sunday"}

----------------------------------------------------------------------------
(* Specification SpecDetect: a timetable is built row by row and the       *)
(* detection functions are applied to it.                                  *)

InitRest ==
    /\ activities = <<>>
    /\ activity_logs = <<>>
    /\ notifications = <<>>
    /\ active_sessions = <<>>
    /\ last_timetable_state = <<>>
    /\ threads = <<>>
    /\ detector = NotStarted
    /\ prev = NoCall

InitDetect ==
    /\ users = DetectUsers
    /\ timetable = <<>>
    /\ clock \in {[date |-> 0, time |-> t] : t \in DetectClocks}
    /\ out = NoCall
    /\ InitRest

\* create_timetable_entry: the new row takes a place in the query order
CreateEntry(shapes) ==
    \E i \in shapes, status \in Statuses,
       pos \in 1..(Len(timetable) + 1) :
        /\ out = NoCall
        /\ Len(timetable) < MaxEntries
        /\ \A j \in DOMAIN timetable : timetable[j].id # i
        /\ DbOrdered(InsertAt(timetable, pos, Row(i, status)))
        /\ timetable' = InsertAt(timetable, pos, Row(i, status))
        /\ out' = NoCall
        /\ UNCHANGED <<detector, users, activities, activity_logs, notifications, clock,
                       active_sessions, last_timetable_state, threads, prev>>

create_timetable_entry == CreateEntry(DetectShapes)

\* cancel_class(entry_id): update_timetable_entry(id, {'status': 'cancelled'})
cancel_class ==
    \E j \in DOMAIN timetable :
        /\ out = NoCall
        /\ timetable[j].status # "cancelled"
        /\ timetable' = [timetable EXCEPT ![j].status = "cancelled"]
        /\ out' = NoCall
        /\ UNCHANGED <<detector, users, activities, activity_logs, notifications, clock,
                       active_sessions, last_timetable_state, threads, prev>>

Unchanged_but_out ==
    UNCHANGED <<detector, users, timetable, activities, activity_logs, notifications,
                clock, active_sessions, last_timetable_state, threads, prev>>

CallDetectGaps ==
    \E course \in QueryCourses, day \in QueryDays :
        /\ out = NoCall
        /\ out' = [op |-> "detect_downtime_for_course", course |-> course,
                   day |-> day,
                   result |-> detect_downtime_for_course(course, day,
                                  Steady(clock.time), 0)]
        /\ Unchanged_but_out

CallDetectCancelled ==
    \E course \in QueryCourses, day \in QueryDays :
        /\ out = NoCall
        /\ out' = [op |-> "detect_cancelled_class_slots", course |-> course,
                   day |-> day,
                   result |-> detect_cancelled_class_slots(course, day,
                                  Steady(clock.time), 0)]
        /\ Unchanged_but_out

CallWeekly ==
    \E course \in QueryCourses :
        /\ out = NoCall
        /\ out' = [op |-> "get_weekly_free_time_summary", course |-> course,
                   day |-> "",
                   result |-> get_weekly_free_time_summary(course,
                                  Steady(clock.time))]
        /\ Unchanged_but_out

\* the response is delivered; the next request can be served
Return ==
    /\ out # NoCall
    /\ out' = NoCall
    /\ prev' = NoCall
    /\ UNCHANGED <<detector, users, timetable, activities, activity_logs, notifications,
                   clock, active_sessions, last_timetable_state, threads>>

NextDetect ==
    \/ create_timetable_entry
    \/ cancel_class
    \/ CallDetectGaps
    \/ CallDetectCancelled
    \/ CallWeekly
    \/ Return

SpecDetect == InitDetect /\ [][NextDetect]_vars

----------------------------------------------------------------------------
(* Specification SpecClock: detect_all_downtime_for_course while the clock *)
(* runs.  Every flag of every slot is computed from a clock read of its    *)
(* own (get_current_time); the clock may advance between two reads, also   *)
(* past midnight, where datetime.now().time() starts again at 00:00.       *)

SecondsPerDay == 24 * 3600
ClockTimes == {T(0, 0), T(9, 59) + 59, T(10, 0), T(23, 59) + 58}
Instant(c) == c.date * SecondsPerDay + c.time

InitClock ==
    /\ users = DetectUsers
    /\ timetable = <<>>
    /\ clock \in {[date |-> 0, time |-> t] : t \in ClockTimes}
    /\ out = NoCall
    /\ InitRest

create_evening_entry == CreateEntry(ClockShapes)

\* detect_all_downtime_for_course(course) with day=None: the day is read
\* first; the clock shows `later`, at most MaxDelay seconds after the start
\* of the call, from the at-th read of the time on
CallDetectAllRacing ==
    \E later \in {[date |-> d, time |-> t] : d \in 0..MaxDate, t \in ClockTimes},
       at \in 1..(2 * MaxEntries) :
        /\ out = NoCall
        /\ Instant(later) >= Instant(clock)
        /\ Instant(later) - Instant(clock) <= MaxDelay
        /\ LET rd == [t1 |-> clock.time, t2 |-> later.time, at |-> at]
               day == get_day_name(clock.date)
           IN out' = [op |-> "detect_all_downtime_for_course",
                      course |-> "CS", day |-> day, rd |-> rd,
                      first |-> clock, later |-> later,
                      result |-> detect_all_downtime_for_course("CS", day,
                                                                rd, 0)]
        /\ clock' = later
        /\ UNCHANGED <<detector, users, timetable, activities, activity_logs,
                       notifications, active_sessions, last_timetable_state,
                       threads, prev>>

NextClock ==
    \/ create_evening_entry
    \/ CallDetectAllRacing
    \/ Return

SpecClock == InitClock /\ [][NextClock]_vars

----------------------------------------------------------------------------
(* Recommendation (app/services/recommendation_service.py)                 *)

\* the three queries of get_activities_by_course, concatenated, then
\* de-duplicated by id (the first occurrence is kept); a null course is ""
RECURSIVE Dedup(_, _)
Dedup(q, seen_ids) ==
    IF q = <<>> THEN <<>>
    ELSE IF Head(q).id \in seen_ids THEN Dedup(Tail(q), seen_ids)
    ELSE <<Head(q)>> \o Dedup(Tail(q), seen_ids \cup {Head(q).id})

get_activities_by_course(course) ==
    LET dept_activities == SelectSeq(activities, LAMBDA a : a.course = course)
        universal_activities == SelectSeq(activities, LAMBDA a : a.course = "")
        general_activities ==
            SelectSeq(activities, LAMBDA a : a.course = "General")
    IN Dedup(dept_activities \o universal_activities \o general_activities,
             {})

Min_first(a, b) == a
\* Python's min of two numbers
Min(a, b) == IF a <= b THEN a ELSE b

\* filters: "" stands for None (no filter given)
calculate_activity_score(activity, course, duration_minutes, category,
                         difficulty, mode) ==
    LET course_points ==
            IF activity.course # "" /\ Lower(activity.course) = Lower(course)
            THEN 30
            ELSE IF activity.course = "" THEN 15 ELSE 0
        category_points ==
            IF category # "" /\ Lower(activity.category) = Lower(category)
            THEN 20 ELSE 0
        difficulty_points ==
            IF difficulty # "" /\ Lower(activity.difficulty) = Lower(difficulty)
            THEN 15 ELSE 0
        mode_points ==
            IF mode # "" /\ Lower(activity.mode) = Lower(mode) THEN 15 ELSE 0
        efficiency_points ==
            IF activity.duration_minutes > 0 /\ duration_minutes > 0
            THEN Min((activity.duration_minutes * 20) \div duration_minutes,
                     20)
            ELSE 0
    IN course_points + category_points + difficulty_points + mode_points
           + efficiency_points

\* activity.get('duration_minutes', 0) <= duration_minutes
Suitable_any(activity, duration_minutes) == TRUE
Suitable(activity, duration_minutes) ==
    activity.duration_minutes <= duration_minutes

\* the permutations random.shuffle can produce
Perms(n) == {f \in [1..n -> 1..n] : \A i, j \in 1..n : f[i] = f[j] => i = j}

\* scored_activities.sort(key=lambda x: x['relevance_score'], reverse=True):
\* descending; elements of equal score keep their order
SortByScore_skipped(scored) == scored
SortByScore(scored) ==
    SortStable(scored,
        [i \in DOMAIN scored |-> <<0 - scored[i].relevance_score>>])

\* random.shuffle puts the i-th element at rank perm[i] among the others
get_recommended_activities(course, duration_minutes, category, difficulty,
                           mode, perm) ==
    LET all_activities == get_activities_by_course(course)
        suitable_activities ==
            SelectSeq(all_activities,
                      LAMBDA a : Suitable(a, duration_minutes))
        scored_activities ==
            [i \in DOMAIN suitable_activities |->
                [id |-> suitable_activities[i].id,
                 course |-> suitable_activities[i].course,
                 category |-> suitable_activities[i].category,
                 difficulty |-> suitable_activities[i].difficulty,
                 mode |-> suitable_activities[i].mode,
                 duration_minutes |-> suitable_activities[i].duration_minutes,
                 relevance_score |->
                     calculate_activity_score(suitable_activities[i], course,
                         duration_minutes, category, difficulty, mode)]]
        shuffled == SortStable(scored_activities,
                        [i \in DOMAIN scored_activities |-> <<perm[i]>>])
    IN SortByScore(shuffled)

\* Activities the model draws from.  A row's id is its index here.
ActivityShapes == <<
    [course |-> "CS", category |-> "Learning", difficulty |-> "Medium",
     mode |-> "Solo", duration_minutes |-> 30],
    [course |-> "CS", category |-> "Skill", difficulty |-> "Easy",
     mode |-> "Solo", duration_minutes |-> 20],
    [course |-> "CS", category |-> "Wellness", difficulty |-> "Easy",
     mode |-> "Group", duration_minutes |-> 20],
    [course |-> "", category |-> "Wellness", difficulty |-> "Easy",
     mode |-> "Solo", duration_minutes |-> 20],
    [course |-> "", category |-> "Learning", difficulty |-> "Medium",
     mode |-> "Group", duration_minutes |-> 30],
    [course |-> "General", category |-> "Learning", difficulty |-> "Easy",
     mode |-> "Solo", duration_minutes |-> 20],
    [course |-> "Math", category |-> "Learning", difficulty |-> "Medium",
     mode |-> "Solo", duration_minutes |-> 30],
    [course |-> "CS", category |-> "Learning", difficulty |-> "Hard",
     mode |-> "Solo", duration_minutes |-> 45] >>

Activity(i) ==
    [id |-> i, course |-> ActivityShapes[i].course,
     category |-> ActivityShapes[i].category,
     difficulty |-> ActivityShapes[i].difficulty,
     mode |-> ActivityShapes[i].mode,
     duration_minutes |-> ActivityShapes[i].duration_minutes]

RecCourses == {"CS", "cs"}
Budgets == {20, 30}
Filters ==
    {[category |-> "", difficulty |-> "", mode |-> ""],
     [category |-> "Wellness", difficulty |-> "", mode |-> ""],
     [category |-> "", difficulty |-> "Easy", mode |-> "Group"]}

----------------------------------------------------------------------------
(* Specification SpecRec: a catalog is built and get_recommended_activities*)
(* is called, then called again with the same arguments.                   *)

InitRec ==
    /\ users = DetectUsers
    /\ timetable = <<>>
    /\ clock = [date |-> 0, time |-> T(10, 0)]
    /\ out = NoCall
    /\ InitRest

\* create_activity: a row is inserted
create_activity ==
    \E i \in DOMAIN ActivityShapes :
        /\ out = NoCall
        /\ Len(activities) < MaxActivities
        /\ \A j \in DOMAIN activities : activities[j].id # i
        /\ activities' = Append(activities, Activity(i))
        /\ UNCHANGED <<detector, users, timetable, activity_logs, notifications, clock,
                       active_sessions, last_timetable_state, threads, out,
                       prev>>

Recommend(course, duration_minutes, f, perm) ==
    [op |-> "get_recommended_activities", course |-> course,
     duration_minutes |-> duration_minutes, filters |-> f,
     result |-> get_recommended_activities(course, duration_minutes,
                    f.category, f.difficulty, f.mode, perm)]

CallRecommend ==
    \E course \in RecCourses, duration_minutes \in Budgets, f \in Filters,
       perm \in Perms(MaxActivities) :
        /\ out = NoCall
        /\ out' = Recommend(course, duration_minutes, f, perm)
        /\ Unchanged_but_out

\* the same request once more, on the same data
CallRecommendAgain ==
    \E perm \in Perms(MaxActivities) :
        /\ out # NoCall
        /\ prev = NoCall
        /\ prev' = out
        /\ out' = Recommend(out.course, out.duration_minutes, out.filters,
                            perm)
        /\ UNCHANGED <<detector, users, timetable, activities, activity_logs,
                       notifications, clock, active_sessions,
                       last_timetable_state, threads>>

NextRec ==
    \/ create_activity
    \/ CallRecommend
    \/ CallRecommendAgain
    \/ Return

SpecRec == InitRec /\ [][NextRec]_vars

----------------------------------------------------------------------------
(* Specification SpecScore: calculate_activity_score applied to one        *)
(* activity, for every request.                                            *)

MaxMinutes == 12

\* activity durations and budgets, in minutes
Minutes == (1..MaxMinutes) \cup {20, 30, 45, 60}

ScoreCourses == {"", "General", "CS", "cs", "Math"}
ScoreFilters ==
    Filters \cup {[category |-> "Learning", difficulty |-> "Easy",
                   mode |-> "Solo"]}

InitScore ==
    /\ users = DetectUsers
    /\ timetable = <<>>
    /\ clock = [date |-> 0, time |-> T(10, 0)]
    /\ out = NoCall
    /\ activity_logs = <<>>
    /\ notifications = <<>>
    /\ active_sessions = <<>>
    /\ last_timetable_state = <<>>
    /\ threads = <<>>
    /\ detector = NotStarted
    /\ prev = NoCall
    /\ \E course \in ScoreCourses, category \in {"Learning", "Wellness"},
          minutes \in Minutes :
          activities = <<[id |-> 1, course |-> course, category |-> category,
                          difficulty |-> "Easy", mode |-> "Solo",
                          duration_minutes |-> minutes]>>

CallScore ==
    \E course \in {"CS", "Math"}, duration_minutes \in Minutes,
       f \in ScoreFilters :
        /\ out = NoCall
        /\ out' = [op |-> "calculate_activity_score",
                   activity |-> activities[1], course |-> course,
                   duration_minutes |-> duration_minutes, filters |-> f,
                   score |-> calculate_activity_score(activities[1], course,
                                 duration_minutes, f.category, f.difficulty,
                                 f.mode)]
        /\ Unchanged_but_out

NextScore ==
    \/ CallScore
    \/ Return

SpecScore == InitScore /\ [][NextScore]_vars

----------------------------------------------------------------------------
(* The real-time detector (app/services/realtime_service.py)               *)

NoSlot == [reason |-> "none"]
Raised == [reason |-> "raised"]

\* RealTimeDetector._parse_time: the formats of parse_time, in its order
_parse_time(time_str) == parse_time(time_str)

\* RealTimeDetector._calculate_duration on two time texts
_calculate_duration(start_str, end_str) ==
    IF _parse_time(start_str) = Null \/ _parse_time(end_str) = Null THEN 0
    ELSE IntMinutes(_parse_time(end_str) - _parse_time(start_str))

\* the smallest number of a non-empty set of numbers
Least(S) == CHOOSE x \in S : \A y \in S : x <= y

\* RealTimeDetector._get_current_free_slot.  The sort of the day's entries
\* compares the parsed start times, so a start that does not parse (None)
\* makes it raise as soon as there is anything to compare it with.
_get_current_free_slot(course, day, current_time) ==
    LET tt == get_timetable_by_course(course)
        on_day == SelectSeq(tt, LAMBDA e : Lower(e.day) = Lower(day)
                                           /\ e.status = "scheduled")
        day_entries ==
            SortStable(on_day,
                [i \in DOMAIN on_day |-> <<_parse_time(on_day[i].start_time)>>])
        GapText(i) ==
            [s |-> strftime_HM(_parse_time(day_entries[i].end_time)),
             e |-> strftime_HM(_parse_time(day_entries[i + 1].start_time))]
        gaps == {i \in 1..(Len(day_entries) - 1) :
                    /\ _parse_time(day_entries[i].end_time) # Null
                    /\ _parse_time(day_entries[i + 1].start_time) # Null
                    /\ _parse_time(day_entries[i].end_time) <= current_time
                    /\ current_time < _parse_time(day_entries[i + 1].start_time)
                    /\ _calculate_duration(GapText(i).s, GapText(i).e) >= 30}
        cancelled == SelectSeq(tt, LAMBDA e : Lower(e.day) = Lower(day)
                                              /\ e.status = "cancelled")
        hits == {i \in DOMAIN cancelled :
                    /\ _parse_time(cancelled[i].start_time) # Null
                    /\ _parse_time(cancelled[i].end_time) # Null
                    /\ _parse_time(cancelled[i].start_time) <= current_time
                    /\ current_time < _parse_time(cancelled[i].end_time)}
    IN IF tt = <<>> THEN NoSlot
       ELSE IF Len(on_day) >= 2
               /\ \E i \in DOMAIN on_day : _parse_time(on_day[i].start_time) = Null
       THEN Raised
       ELSE IF gaps # {}
       THEN [start_time |-> GapText(Least(gaps)).s,
             end_time |-> GapText(Least(gaps)).e,
             duration_minutes |->
                 _calculate_duration(GapText(Least(gaps)).s,
                                     GapText(Least(gaps)).e),
             reason |-> "timetable_gap"]
       ELSE IF hits # {}
       THEN [start_time |-> cancelled[Least(hits)].start_time,
             end_time |-> cancelled[Least(hits)].end_time,
             duration_minutes |->
                 _calculate_duration(cancelled[Least(hits)].start_time,
                                     cancelled[Least(hits)].end_time),
             reason |-> "class_cancelled"]
       ELSE NoSlot

\* the score _auto_assign_activity gives an activity
AutoAssignScore(activity, course, duration_minutes, completed_ids) ==
    (IF activity.course = course THEN 50
     ELSE IF activity.course = "" \/ activity.course = "General" THEN 20
     ELSE 0)
    + (IF activity.id \notin completed_ids THEN 30 ELSE 0)
    + ((activity.duration_minutes * 25) \div duration_minutes)
    + (IF activity.category = "Learning" THEN 15
       ELSE IF activity.category = "Skill" THEN 10 ELSE 0)

\* the activity _auto_assign_activity picks: scored[0] after the descending
\* stable sort, or <<>> for None
AutoAssignBest(student_id, course, duration_minutes) ==
    LET suitable == SelectSeq(get_activities_by_course(course),
                        LAMBDA a : a.duration_minutes <= duration_minutes)
        completed_ids ==
            {activity_logs[i].activity_id : i \in
                {j \in DOMAIN activity_logs :
                    /\ activity_logs[j].student_id = student_id
                    /\ activity_logs[j].status = "completed"}}
        scored == SortStable(suitable,
                     [i \in DOMAIN suitable |->
                         <<0 - AutoAssignScore(suitable[i], course,
                                   duration_minutes, completed_ids)>>])
    IN IF suitable = <<>> THEN <<>> ELSE <<scored[1]>>

\* create_notification rows: the receiver, which of the detector's messages
\* it is, the slot whose times the message quotes, and the calendar date of
\* the sweep's `now`
Notification(user_id, kind, slot, date) ==
    [user_id |-> user_id, kind |-> kind,
     slot |-> [start_time |-> slot.start_time, end_time |-> slot.end_time],
     date |-> date]

\* what _auto_assign_activity appends to activity_logs: create_activity_log(
\* student_id, id, 'suggested') passes 'suggested' as start_time
AutoAssignLogs(student_id, best) ==
    IF best = <<>> THEN <<>>
    ELSE <<[student_id |-> student_id, activity_id |-> best[1].id,
            start_time |-> "suggested", status |-> "in_progress"]>>

AutoAssignNotes(student_id, best, slot, date) ==
    IF best = <<>> THEN <<>>
    ELSE <<Notification(student_id, "auto_suggested", slot, date)>>

SortedIds(S) ==
    (IF "s1" \in S THEN <<"s1">> ELSE <<>>) \o
    (IF "s2" \in S THEN <<"s2">> ELSE <<>>)

UserById(id) == CHOOSE u \in users : u.id = id

Idle == [pc |-> "idle"]

HasSession_never(session_key) == FALSE

\* `session_key in self.active_sessions`
HasSession(session_key) == session_key \in DOMAIN active_sessions

\* _detect_current_free_time, first lines: the clock and the students are
\* read once for the whole sweep
StartSweep(t, from) ==
    /\ threads[t].pc = from
    /\ threads' = [threads EXCEPT ![t] =
           [pc |-> "loop", date |-> clock.date, time |-> clock.time,
            day |-> get_day_name(clock.date),
            todo |-> SortedIds({u.id : u \in get_users_by_role("student")}),
            slot |-> NoSlot]]
    /\ UNCHANGED <<detector, users, timetable, activities, activity_logs, notifications,
                   clock, active_sessions, last_timetable_state, out, prev>>

BeginSweep(t) == StartSweep(t, "idle")

NextStudent(th) ==
    IF Len(th.todo) = 1 THEN Idle
    ELSE [th EXCEPT !.pc = "loop", !.todo = Tail(th.todo), !.slot = NoSlot]

\* one round of the loop up to `if free_slot:`: the membership test on
\* active_sessions and the look-up of the slot.  An exception ends the sweep
\* (it is caught in _detection_loop).
CheckStudent(t) ==
    /\ threads[t].pc = "loop"
    /\ LET th == threads[t]
           student == UserById(Head(th.todo))
           session_key == <<student.id, th.day>>
           free_slot == _get_current_free_slot(student.course, th.day, th.time)
       IN threads' = [threads EXCEPT ![t] =
              IF student.course = "" THEN NextStudent(th)
              ELSE IF HasSession(session_key)
              THEN NextStudent(th)
              ELSE IF free_slot = Raised THEN Idle
              ELSE IF free_slot = NoSlot THEN NextStudent(th)
              ELSE [th EXCEPT !.pc = "notify", !.slot = free_slot]]
    /\ UNCHANGED <<detector, users, timetable, activities, activity_logs, notifications,
                   clock, active_sessions, last_timetable_state, out, prev>>

\* the body of `if free_slot:`: the session is recorded, the student is
\* notified and an activity is assigned
NotifyStudent(t) ==
    /\ threads[t].pc = "notify"
    /\ LET th == threads[t]
           student == UserById(Head(th.todo))
           session_key == <<student.id, th.day>>
           best == AutoAssignBest(student.id, student.course,
                                  th.slot.duration_minutes)
       IN /\ active_sessions' =
                 [k \in DOMAIN active_sessions \cup {session_key} |->
                     IF k = session_key
                     THEN [start |-> th.slot.start_time,
                           end |-> th.slot.end_time, notified |-> TRUE]
                     ELSE active_sessions[k]]
          /\ notifications' = notifications
                 \o <<Notification(student.id, "free_time_now", th.slot,
                                   th.date)>>
                 \o AutoAssignNotes(student.id, best, th.slot, th.date)
          /\ activity_logs' = activity_logs
                 \o AutoAssignLogs(student.id, best)
          /\ threads' = [threads EXCEPT ![t] = NextStudent(th)]
    /\ UNCHANGED <<detector, users, timetable, activities, clock, last_timetable_state,
                   out, prev>>

----------------------------------------------------------------------------
(* Specification SpecRT: the detection loop's sweeps, one after the other, *)
(* while time passes.  Specification SpecRace: two executions of the sweep.*)

RTUsers ==
    {[id |-> "t1", role |-> "teacher", course |-> "CS"],
     [id |-> "s1", role |-> "student", course |-> "CS"],
     [id |-> "s2", role |-> "student", course |-> "CS"]}

\* DEMO_TIMETABLE, Monday and Tuesday, in query order
RTTimetable ==
    <<Row(11, "scheduled"), Row(12, "scheduled"), Row(13, "scheduled"),
      Row(14, "scheduled"), Row(15, "cancelled"), Row(16, "scheduled")>>

RTTimes == {T(9, 30), T(10, 30), T(12, 30)}

\* the days the clock visits: a Monday, the Tuesday after it, and a day of
\* the following week
RTDates == {0, 1, MaxDate}

InitRTCommon ==
    /\ timetable = RTTimetable
    /\ activities = <<Activity(1), Activity(4)>>
    /\ activity_logs = <<>>
    /\ notifications = <<>>
    /\ clock = [date |-> 0, time |-> T(9, 30)]
    /\ active_sessions = <<>>
    /\ last_timetable_state = <<>>
    /\ out = NoCall
    /\ prev = NoCall

InitRT ==
    /\ InitRTCommon
    /\ users = RTUsers
    /\ threads = [t \in {1} |-> Idle]
    /\ detector = Started

\* two detection loops are alive after start_detection, stop_detection (whose
\* join gives up after 5 seconds of the loop's 30-second sleep) and
\* start_detection again
InitRace ==
    /\ InitRTCommon
    /\ users = {u \in RTUsers : u.id # "s2"}
    /\ threads = [t \in {1, 2} |-> Idle]
    /\ detector = Started

\* time passes
Tick ==
    \E later \in {[date |-> d, time |-> t] : d \in RTDates, t \in RTTimes} :
        /\ Instant(later) > Instant(clock)
        /\ clock' = later
        /\ UNCHANGED <<detector, users, timetable, activities, activity_logs,
                       notifications, active_sessions, last_timetable_state,
                       threads, out, prev>>

NextRT ==
    \/ Tick
    \/ \E t \in DOMAIN threads : BeginSweep(t)
    \/ \E t \in DOMAIN threads : CheckStudent(t)
    \/ \E t \in DOMAIN threads : NotifyStudent(t)

SpecRT == InitRT /\ [][NextRT]_vars

SpecRace == InitRace /\ [][NextRT]_vars

----------------------------------------------------------------------------
(* The detection loop's iteration: _check_for_cancellations, then          *)
(* _detect_current_free_time (RealTimeDetector._detection_loop)            *)

RECURSIVE Flatten(_)
Flatten(qs) == IF qs = <<>> THEN <<>> ELSE Head(qs) \o Flatten(Tail(qs))

\* the orders a `for` over a Python set may visit its members in
OrdersOf(S) ==
    {q \in [1..Cardinality(S) -> S] : \A i, j \in DOMAIN q : q[i] = q[j] => i = j}

\* set(s.get('course') for s in students if s.get('course')): the course
\* texts as the students store them
StudentCourses ==
    {u.course : u \in {v \in get_users_by_role("student") : v.course # ""}}

\* self.last_timetable_state.get(course, [])
previous_state(course) ==
    IF course \in DOMAIN last_timetable_state
    THEN last_timetable_state[course] ELSE <<>>

NewlyCancelled_all(course) ==
    SelectSeq(get_timetable_by_course(course),
              LAMBDA entry : entry.status = "cancelled")

\* the entries of the current timetable _check_for_cancellations hands to
\* _handle_class_cancellation: prev_entry is the first row of the snapshot
\* with the entry's id
NewlyCancelled(course) ==
    SelectSeq(get_timetable_by_course(course),
        LAMBDA entry :
            LET found == {i \in DOMAIN previous_state(course) :
                              previous_state(course)[i].id = entry.id}
            IN /\ found # {}
               /\ previous_state(course)[Least(found)].status = "scheduled"
               /\ entry.status = "cancelled")

\* the notification of _handle_class_cancellation: its message quotes the
\* day, the times and the duration of the cancelled entry
CancellationNote(user_id, entry, duration, date) ==
    [user_id |-> user_id, kind |-> "class_cancelled",
     slot |-> [start_time |-> entry.start_time, end_time |-> entry.end_time],
     date |-> date, entry_id |-> entry.id, minutes |-> duration]

\* the students _handle_class_cancellation notifies, in query order
StudentsOfCourse(course) ==
    SortedIds({u.id : u \in {v \in get_users_by_course(course) :
                                 v.role = "student"}})

\* _handle_class_cancellation(course, cancelled_entry): what it appends to
\* the notifications and to the activity logs
HandleNotes(course, entry) ==
    LET students == StudentsOfCourse(course)
        duration == _calculate_duration(entry.start_time, entry.end_time)
    IN Flatten([i \in DOMAIN students |->
           <<CancellationNote(students[i], entry, duration, clock.date)>>
           \o AutoAssignNotes(students[i],
                  AutoAssignBest(students[i], course, duration),
                  entry, clock.date)])

HandleLogs(course, entry) ==
    LET students == StudentsOfCourse(course)
        duration == _calculate_duration(entry.start_time, entry.end_time)
    IN Flatten([i \in DOMAIN students |->
           AutoAssignLogs(students[i],
               AutoAssignBest(students[i], course, duration))])

\* _check_for_cancellations, the whole sweep over the courses.  prev keeps
\* what the sweep handled, every (course, id) handled so far, and whether
\* the iteration repeats the one before at the same instant on the same
\* timetable.
_check_for_cancellations(t) ==
    /\ threads[t].pc = "idle"
    /\ \E order \in OrdersOf(StudentCourses) :
          LET handled == [c \in StudentCourses |-> NewlyCancelled(c)]
              PerCourse(F(_, _)) ==
                  Flatten([k \in DOMAIN order |->
                      Flatten([i \in DOMAIN handled[order[k]] |->
                          F(order[k], handled[order[k]][i])])])
              Pair(c, e) == <<[course |-> c, id |-> e.id]>>
          IN /\ notifications' = notifications \o PerCourse(HandleNotes)
             /\ activity_logs' = activity_logs \o PerCourse(HandleLogs)
             /\ last_timetable_state' =
                    [c \in DOMAIN last_timetable_state \cup StudentCourses |->
                        IF c \in StudentCourses
                        THEN get_timetable_by_course(c)
                        ELSE last_timetable_state[c]]
             /\ prev' = [op |-> "iteration", clock |-> clock,
                         timetable |-> timetable, handled |-> handled,
                         repeats |-> /\ prev.op = "iteration"
                                     /\ prev.clock = clock
                                     /\ prev.timetable = timetable,
                         log |-> (IF prev.op = "iteration" THEN prev.log
                                  ELSE <<>>) \o PerCourse(Pair)]
    /\ threads' = [threads EXCEPT ![t] = [pc |-> "checked"]]
    /\ UNCHANGED <<detector, users, timetable, activities, clock,
                   active_sessions, out>>

\* the second call of the iteration
_detect_current_free_time(t) == StartSweep(t, "checked")

LoopUsers ==
    {[id |-> "t1", role |-> "teacher", course |-> "CS"],
     [id |-> "s1", role |-> "student", course |-> "CS"],
     [id |-> "s2", role |-> "student", course |-> "cs"]}

\* two Monday classes and a Tuesday class cancelled before the detector
\* started
LoopTimetable ==
    <<Row(11, "scheduled"), Row(12, "scheduled"), Row(15, "cancelled")>>

InitLoop ==
    /\ users = LoopUsers
    /\ timetable = LoopTimetable
    /\ activities = <<Activity(1), Activity(4)>>
    /\ activity_logs = <<>>
    /\ notifications = <<>>
    /\ clock = [date |-> 0, time |-> T(9, 30)]
    /\ active_sessions = <<>>
    /\ last_timetable_state = <<>>
    /\ threads = [t \in {1} |-> Idle]
    /\ detector = Started
    /\ out = NoCall
    /\ prev = NoCall

NextLoop ==
    \/ Tick
    \/ cancel_class
    \/ \E t \in DOMAIN threads : _check_for_cancellations(t)
    \/ \E t \in DOMAIN threads : _detect_current_free_time(t)
    \/ \E t \in DOMAIN threads : CheckStudent(t)
    \/ \E t \in DOMAIN threads : NotifyStudent(t)

SpecLoop == InitLoop /\ [][NextLoop]_vars

----------------------------------------------------------------------------
(* Specification SpecCancel: a teacher cancels classes through the cancel  *)
(* route (thread 2) while the detection loop (thread 1) iterates.          *)

Ready == [pc |-> "ready"]

\* cancel_timetable / cancel_class of the API: the status of the entry is
\* set to 'cancelled'; the course handed on is the entry's
CancelUpdate(r) ==
    /\ threads[r].pc = "ready"
    /\ \E j \in DOMAIN timetable :
          /\ timetable[j].status = "scheduled"
          /\ timetable' = [timetable EXCEPT ![j].status = "cancelled"]
          /\ threads' = [threads EXCEPT ![r] =
                 [pc |-> "trigger", entry_id |-> timetable[j].id,
                  course |-> timetable[j].course]]
    /\ UNCHANGED <<detector, users, activities, activity_logs, notifications,
                   clock, active_sessions, last_timetable_state, out, prev>>

\* trigger_class_cancellation(entry_id, course): the entry is looked up in
\* the course's timetable and handed to _handle_class_cancellation
trigger_class_cancellation(r) ==
    /\ threads[r].pc = "trigger"
    /\ LET course == threads[r].course
           found == SelectSeq(get_timetable_by_course(course),
                        LAMBDA e : e.id = threads[r].entry_id)
       IN /\ course # ""
          /\ notifications' = notifications \o
                 (IF found = <<>> THEN <<>>
                  ELSE HandleNotes(course, found[1]))
          /\ activity_logs' = activity_logs \o
                 (IF found = <<>> THEN <<>>
                  ELSE HandleLogs(course, found[1]))
    /\ threads' = [threads EXCEPT ![r] = Ready]
    /\ UNCHANGED <<detector, users, timetable, activities, clock,
                   active_sessions, last_timetable_state, out, prev>>

\* two Monday classes, both scheduled
CancelTimetable == <<Row(11, "scheduled"), Row(12, "scheduled")>>

InitCancel ==
    /\ users = RTUsers
    /\ timetable = CancelTimetable
    /\ activities = <<Activity(1), Activity(4)>>
    /\ activity_logs = <<>>
    /\ notifications = <<>>
    /\ clock = [date |-> 0, time |-> T(9, 30)]
    /\ active_sessions = <<>>
    /\ last_timetable_state = <<>>
    /\ threads = <<Idle, Ready>>
    /\ detector = Started
    /\ out = NoCall
    /\ prev = NoCall

NextCancel ==
    \/ \E r \in DOMAIN threads : CancelUpdate(r)
    \/ \E r \in DOMAIN threads : trigger_class_cancellation(r)
    \/ \E t \in DOMAIN threads : _check_for_cancellations(t)
    \/ \E t \in DOMAIN threads : _detect_current_free_time(t)
    \/ \E t \in DOMAIN threads : CheckStudent(t)
    \/ \E t \in DOMAIN threads : NotifyStudent(t)

SpecCancel == InitCancel /\ [][NextCancel]_vars

----------------------------------------------------------------------------
(* Specification SpecLife: start_detection and stop_detection, called by   *)
(* two request threads, and the detection loops they start.  Threads 1 and *)
(* 2 are the callers; every thread after them is a _detection_loop.  The   *)
(* tables are empty, so a sweep changes none of them.                      *)

MaxLoops == 2
MaxCalls == 3

Callers == {1, 2}
LoopThreads == {t \in DOMAIN threads : threads[t].kind = "loop"}

Caller(pc, calls, stops) ==
    [kind |-> "caller", pc |-> pc, calls |-> calls, stops |-> stops]

InitLife ==
    /\ users = {}
    /\ timetable = <<>>
    /\ activities = <<>>
    /\ activity_logs = <<>>
    /\ notifications = <<>>
    /\ clock = [date |-> 0, time |-> T(9, 30)]
    /\ active_sessions = <<>>
    /\ last_timetable_state = <<>>
    /\ threads = [c \in Callers |-> Caller("idle", 0, 0)]
    /\ detector = NotStarted
    /\ out = NoCall
    /\ prev = NoCall

UnchangedTables ==
    UNCHANGED <<users, timetable, activities, activity_logs, notifications,
                clock, active_sessions, last_timetable_state, out, prev>>

\* start_detection, `if self.detection_running: return`: the flag is read
\* and found False
StartTest(c) ==
    /\ threads[c].pc = "idle"
    /\ threads[c].calls < MaxCalls
    /\ ~ detector.detection_running
    /\ threads' = [threads EXCEPT ![c].pc = "start_set",
                                  ![c].calls = @ + 1]
    /\ UNCHANGED detector
    /\ UnchangedTables

\* self.detection_running = True
StartSet(c) ==
    /\ threads[c].pc = "start_set"
    /\ detector' = [detector EXCEPT !.detection_running = TRUE]
    /\ threads' = [threads EXCEPT ![c].pc = "start_thread"]
    /\ UnchangedTables

\* self.detection_thread = threading.Thread(...); .start()
StartThread(c) ==
    /\ threads[c].pc = "start_thread"
    /\ Cardinality(LoopThreads) < MaxLoops
    /\ threads' = Append([threads EXCEPT ![c].pc = "idle"],
                         [kind |-> "loop", pc |-> "test"])
    /\ detector' = [detector EXCEPT !.detection_thread = Len(threads) + 1]
    /\ UnchangedTables

\* stop_detection: self.detection_running = False
StopSet(c) ==
    /\ threads[c].pc = "idle"
    /\ threads[c].calls < MaxCalls
    /\ detector' = [detector EXCEPT !.detection_running = FALSE]
    /\ threads' = [threads EXCEPT
           ![c] = Caller(IF detector.detection_thread # 0 THEN "join"
                         ELSE "idle",
                         threads[c].calls + 1, threads[c].stops + 1)]
    /\ UnchangedTables

\* self.detection_thread.join(timeout=5): returns when the thread has ended
\* or after 5 seconds, whichever comes first; the loop sleeps 30 seconds
StopJoin(c) ==
    /\ threads[c].pc = "join"
    /\ threads' = [threads EXCEPT ![c].pc = "idle"]
    /\ UNCHANGED detector
    /\ UnchangedTables

\* _detection_loop: `while self.detection_running`
LoopTest(t) ==
    /\ threads[t].pc = "test"
    /\ threads' = [threads EXCEPT ![t].pc =
           IF detector.detection_running THEN "sweep" ELSE "ended"]
    /\ UNCHANGED detector
    /\ UnchangedTables

\* _check_for_cancellations and _detect_current_free_time: with no student
\* both return at once
LoopSweep(t) ==
    /\ threads[t].pc = "sweep"
    /\ get_users_by_role("student") = {}
    /\ threads' = [threads EXCEPT ![t].pc = "sleep"]
    /\ UNCHANGED detector
    /\ UnchangedTables

\* time_module.sleep(30) is over
LoopWake(t) ==
    /\ threads[t].pc = "sleep"
    /\ threads' = [threads EXCEPT ![t].pc = "test"]
    /\ UNCHANGED detector
    /\ UnchangedTables

NextLife ==
    \/ \E c \in Callers : StartTest(c)
    \/ \E c \in Callers : StartSet(c)
    \/ \E c \in Callers : StartThread(c)
    \/ \E c \in Callers : StopSet(c)
    \/ \E c \in Callers : StopJoin(c)
    \/ \E t \in DOMAIN threads : LoopTest(t)
    \/ \E t \in DOMAIN threads : LoopSweep(t)
    \/ \E t \in DOMAIN threads : LoopWake(t)

SpecLife == InitLife /\ [][NextLife]_vars

----------------------------------------------------------------------------
(* Personalized recommendations (get_personalized_recommendations)         *)

MaxLogs == 19
RecentWindow == 10

\* rows of activity_logs made by the activity routes: start_time is the
\* moment the activity was started, a number that grows with every row
\* get_activity_logs_by_student: .order('start_time', desc=True)
get_activity_logs_by_student(student_id) ==
    LET mine == SelectSeq(activity_logs,
                          LAMBDA log : log.student_id = student_id)
    IN SortStable(mine, [i \in DOMAIN mine |-> <<0 - mine[i].start_time>>])

\* log.get('activities', {}).get('category', 'Learning'): the category of
\* the joined activity row
CategoryOfLog(log) ==
    LET joined == {a \in SeqToSet(activities) : a.id = log.activity_id}
    IN IF joined = {} THEN "Learning"
       ELSE (CHOOSE a \in joined : TRUE).category

\* category_counts[category] after the loop over completed_activities
CategoryCount(completed, category) ==
    Cardinality({i \in DOMAIN completed :
                    CategoryOfLog(completed[i]) = category})

\* max(category_counts, key=category_counts.get): of the categories with
\* the highest count the one that entered the dict first; "" for None
PreferredCategory(completed) ==
    IF completed = <<>> THEN ""
    ELSE LET category_counts ==
                 [c \in {CategoryOfLog(completed[i]) : i \in DOMAIN completed}
                     |-> CategoryCount(completed, c)]
             highest == {c \in DOMAIN category_counts :
                            \A d \in DOMAIN category_counts :
                                category_counts[d] <= category_counts[c]}
         IN CategoryOfLog(completed[
                Least({i \in DOMAIN completed :
                          CategoryOfLog(completed[i]) \in highest})])

\* completed_activities[-10:]
LastTen(completed) ==
    SubSeq(completed,
           IF Len(completed) > RecentWindow
           THEN Len(completed) - RecentWindow + 1 ELSE 1,
           Len(completed))

OrElse_nothing(filtered_recommendations, recommendations) ==
    filtered_recommendations

\* filtered_recommendations if filtered_recommendations else recommendations
OrElse(filtered_recommendations, recommendations) ==
    IF filtered_recommendations # <<>> THEN filtered_recommendations
    ELSE recommendations

get_personalized_recommendations(student_id, course, duration_minutes, perm) ==
    LET logs == get_activity_logs_by_student(student_id)
        completed_activities ==
            SelectSeq(logs, LAMBDA log : log.status = "completed")
        preferred_category == PreferredCategory(completed_activities)
        recommendations ==
            get_recommended_activities(course, duration_minutes,
                                       preferred_category, "", "", perm)
        completed_ids ==
            {LastTen(completed_activities)[i].activity_id :
                i \in DOMAIN LastTen(completed_activities)}
        filtered_recommendations ==
            SelectSeq(recommendations, LAMBDA rec : rec.id \notin completed_ids)
    IN [preferred_category |-> preferred_category,
        recommendations |-> recommendations,
        result |-> OrElse(filtered_recommendations, recommendations)]

----------------------------------------------------------------------------
(* Specification SpecPers: a student starts and completes activities, one  *)
(* activity again and again and then another one, and asks for             *)
(* personalized recommendations.                                           *)

PersCatalog == <<Activity(1), Activity(3)>>
PersStudents == {"s1", "s2"}

SameLog(a, b) ==
    /\ a.student_id = b.student_id
    /\ a.activity_id = b.activity_id
    /\ a.status = b.status

\* the table consists of at most two runs of like rows
TwoRuns(q) ==
    \E k \in 0..Len(q) :
        /\ \A i \in 1..k : SameLog(q[i], q[1])
        /\ \A i \in (k + 1)..Len(q) : SameLog(q[i], q[Len(q)])

InitPers ==
    /\ users = {[id |-> "s1", role |-> "student", course |-> "CS"],
                [id |-> "s2", role |-> "student", course |-> "CS"]}
    /\ timetable = <<>>
    /\ activities = PersCatalog
    /\ activity_logs = <<>>
    /\ notifications = <<>>
    /\ clock = [date |-> 0, time |-> T(10, 0)]
    /\ active_sessions = <<>>
    /\ last_timetable_state = <<>>
    /\ threads = <<>>
    /\ detector = NotStarted
    /\ out = NoCall
    /\ prev = NoCall

\* create_activity_log, and complete_activity_log for a completed row
LogActivity ==
    \E student_id \in PersStudents, i \in DOMAIN activities,
       status \in {"completed", "in_progress"} :
        LET row == [student_id |-> student_id,
                    activity_id |-> activities[i].id,
                    start_time |-> Len(activity_logs) + 1,
                    status |-> status]
        IN /\ out = NoCall
           /\ Len(activity_logs) < MaxLogs
           /\ TwoRuns(Append(activity_logs, row))
           /\ activity_logs' = Append(activity_logs, row)
           /\ out' = NoCall
           /\ UNCHANGED <<detector, users, timetable, activities, notifications, clock,
                          active_sessions, last_timetable_state, threads, prev>>

CallPersonalized ==
    \E duration_minutes \in Budgets, perm \in Perms(Len(activities)) :
        /\ out = NoCall
        /\ out' = [op |-> "get_personalized_recommendations",
                   student_id |-> "s1", course |-> "CS",
                   duration_minutes |-> duration_minutes, perm |-> perm,
                   call |-> get_personalized_recommendations("s1", "CS",
                                duration_minutes, perm)]
        /\ Unchanged_but_out

NextPers ==
    \/ LogActivity
    \/ CallPersonalized
    \/ Return

SpecPers == InitPers /\ [][NextPers]_vars

----------------------------------------------------------------------------
(* The daily agenda and the periodic scan (downtime_service.py)            *)

RECURSIVE DailyScan(_, _, _, _)
\* the loop of get_daily_schedule_with_gaps over enumerate(day_entries)
DailyScan(es, i, schedule, rd) ==
    IF i > Len(es) THEN schedule
    ELSE LET class_item ==
                 [type |-> "class", start_time |-> es[i].start_time,
                  end_time |-> es[i].end_time, status |-> es[i].status,
                  id |-> es[i].id]
             current_end == parse_time(es[i].end_time)
             next_start == parse_time(es[i + 1].start_time)
             gap == calculate_gap_minutes(current_end, next_start)
             emit == /\ i < Len(es)
                     /\ current_end # Null
                     /\ next_start # Null
                     /\ MeetsThreshold(gap)
         IN DailyScan(es, i + 1,
                Append(schedule, class_item) \o
                (IF emit
                 THEN <<[type |-> "free_time",
                         start_time |-> strftime_HM(current_end),
                         end_time |-> strftime_HM(next_start),
                         duration_minutes |-> IntMinutes(gap),
                         is_current |-> _is_slot_current(current_end,
                                            next_start, rd, 1)]>>
                 ELSE <<>>),
                rd)

get_daily_schedule_with_gaps(course, day, rd) ==
    LET tt == get_timetable_by_course(course)
        on_day == SelectSeq(tt, LAMBDA entry : Lower(entry.day) = Lower(day))
        day_entries ==
            SortStable(on_day, [i \in DOMAIN on_day |-> StartKey(on_day[i])])
    IN DailyScan(day_entries, 1, <<>>, rd)

\* detect_all_student_downtime: the (slot, student) rounds of its loops in
\* the order they are made, the courses visited in the given order
ScanRounds(order, rd) ==
    Flatten([k \in DOMAIN order |->
        LET free_slots ==
                detect_all_downtime_for_course(order[k],
                    get_day_name(clock.date), rd, 0)
            course_students ==
                SortedIds({u.id : u \in {v \in get_users_by_role("student") :
                                             v.course = order[k]}})
        IN Flatten([i \in DOMAIN free_slots |->
               [j \in DOMAIN course_students |->
                   [student_id |-> course_students[j],
                    slot |-> free_slots[i]]]])])

\* the first round whose slot is_current: its message reads
\* slot['remaining_minutes'], a key no slot of detect_all_downtime_for_course
\* has, and the KeyError ends the call; 0 if there is no such round
FirstRaise(rounds) ==
    IF \E i \in DOMAIN rounds : rounds[i].slot.is_current
    THEN Least({i \in DOMAIN rounds : rounds[i].slot.is_current})
    ELSE 0

ScanNotes(rounds) ==
    LET upto == IF FirstRaise(rounds) = 0 THEN Len(rounds)
                ELSE FirstRaise(rounds) - 1
    IN [i \in 1..upto |->
           Notification(rounds[i].student_id, "upcoming_free_time",
                        rounds[i].slot, clock.date)]

detect_all_student_downtime(order, rd) ==
    LET rounds == ScanRounds(order, rd)
    IN [op |-> "detect_all_student_downtime",
        clock |-> clock,
        rounds |-> rounds,
        raised |-> FirstRaise(rounds) # 0,
        result |-> IF FirstRaise(rounds) # 0 THEN <<>> ELSE rounds,
        created |-> ScanNotes(rounds)]

\* max(0, int(delta.total_seconds() / 60)) for delta = to_time - current
WholeMinutesUntil(to_time, current) ==
    IF IntMinutes(to_time - current) > 0 THEN IntMinutes(to_time - current)
    ELSE 0

\* _calculate_remaining_time(end_time_str); the clock read is the k-th
_calculate_remaining_time(end_time_str, rd, k) ==
    IF parse_time(end_time_str) = Null THEN 0
    ELSE WholeMinutesUntil(parse_time(end_time_str), Read(rd, k))

\* _calculate_time_until(start_time_str); the clock read is the k-th
_calculate_time_until(start_time_str, rd, k) ==
    IF parse_time(start_time_str) = Null THEN 0
    ELSE WholeMinutesUntil(parse_time(start_time_str), Read(rd, k))

WithRemaining(slot, remaining) ==
    [course |-> slot.course, day |-> slot.day,
     start_time |-> slot.start_time, end_time |-> slot.end_time,
     duration_minutes |-> slot.duration_minutes, reason |-> slot.reason,
     is_current |-> slot.is_current, is_upcoming |-> slot.is_upcoming,
     remaining_minutes |-> remaining]

\* the loop of get_current_free_slot with the return at the last match
LastCurrent(all_slots, rd) ==
    LET current == {i \in DOMAIN all_slots : all_slots[i].is_current}
        last == CHOOSE i \in current : \A j \in current : j <= i
    IN IF current = {} THEN NoSlot
       ELSE WithRemaining(all_slots[last],
                _calculate_remaining_time(all_slots[last].end_time, rd,
                                          2 * Len(all_slots) + 1))

\* for slot in all_slots: if slot.get('is_current'): ... return slot
FirstCurrent(all_slots, rd) ==
    LET current == {i \in DOMAIN all_slots : all_slots[i].is_current}
    IN IF current = {} THEN NoSlot
       ELSE WithRemaining(all_slots[Least(current)],
                _calculate_remaining_time(all_slots[Least(current)].end_time,
                                          rd, 2 * Len(all_slots) + 1))

\* get_current_free_slot(course): today's slots, then the first current one
get_current_free_slot(course, rd) ==
    FirstCurrent(detect_all_downtime_for_course(course,
                     get_day_name(clock.date), rd, 0), rd)

WithStartsIn(slot, starts_in) ==
    [course |-> slot.course, day |-> slot.day,
     start_time |-> slot.start_time, end_time |-> slot.end_time,
     duration_minutes |-> slot.duration_minutes, reason |-> slot.reason,
     is_current |-> slot.is_current, is_upcoming |-> slot.is_upcoming,
     starts_in_minutes |-> starts_in]

\* upcoming[:limit]: Python's slice, which for a negative limit drops the
\* last -limit elements
SliceTo(q, limit) ==
    IF limit >= 0 THEN SubSeq(q, 1, Min(limit, Len(q)))
    ELSE SubSeq(q, 1, Len(q) + limit)

\* get_upcoming_free_slots(course, limit)
get_upcoming_free_slots(course, limit, rd) ==
    LET all_slots == detect_all_downtime_for_course(course,
                         get_day_name(clock.date), rd, 0)
        upcoming == SelectSeq(all_slots, LAMBDA slot : slot.is_upcoming)
    IN SliceTo([i \in DOMAIN upcoming |->
                   WithStartsIn(upcoming[i],
                       _calculate_time_until(upcoming[i].start_time, rd,
                           2 * Len(all_slots) + i))],
               limit)

----------------------------------------------------------------------------
(* Specification SpecQuery: a timetable is built and the agenda, the       *)
(* combined detection, the detector's current-slot check and the periodic  *)
(* scan are run on it.                                                     *)

QueryUsers ==
    {[id |-> "t1", role |-> "teacher", course |-> "CS"],
     [id |-> "s1", role |-> "student", course |-> "CS"],
     [id |-> "s2", role |-> "student", course |-> "CS"]}

InitQuery ==
    /\ users = QueryUsers
    /\ timetable = <<>>
    /\ clock \in {[date |-> 0, time |-> t] : t \in DetectClocks}
    /\ out = NoCall
    /\ InitRest

\* the timetable is built before the first scan
create_entry_before_scan ==
    /\ notifications = <<>>
    /\ CreateEntry(DetectShapes)

CallDetectAll ==
    \E day \in QueryDays :
        /\ out = NoCall
        /\ out' = [op |-> "detect_all_downtime_for_course", course |-> "CS",
                   day |-> day,
                   gap_slots |-> detect_downtime_for_course("CS", day,
                                     Steady(clock.time), 0),
                   cancelled_slots |-> detect_cancelled_class_slots("CS", day,
                                           Steady(clock.time), 0),
                   result |-> detect_all_downtime_for_course("CS", day,
                                  Steady(clock.time), 0)]
        /\ Unchanged_but_out

CallDailySchedule ==
    \E day \in QueryDays :
        /\ out = NoCall
        /\ out' = [op |-> "get_daily_schedule_with_gaps", course |-> "CS",
                   day |-> day,
                   result |-> get_daily_schedule_with_gaps("CS", day,
                                  Steady(clock.time))]
        /\ Unchanged_but_out

\* the detector's check for one student's course at the instant of a sweep
CallCurrentSlotCheck ==
    /\ out = NoCall
    /\ out' = [op |-> "_get_current_free_slot", course |-> "CS",
               day |-> get_day_name(clock.date),
               result |-> _get_current_free_slot("CS",
                              get_day_name(clock.date), clock.time)]
    /\ Unchanged_but_out

\* run_downtime_scan
CallScan ==
    \E order \in OrdersOf(StudentCourses) :
        /\ out = NoCall
        /\ notifications = <<>>
        /\ out' = detect_all_student_downtime(order, Steady(clock.time))
        /\ notifications' = notifications \o out'.created
        /\ UNCHANGED <<detector, users, timetable, activities, activity_logs, clock,
                       active_sessions, last_timetable_state, threads, prev>>

\* the scan once more, at the same instant and on the same data
CallScanAgain ==
    \E order \in OrdersOf(StudentCourses) :
        /\ out.op = "detect_all_student_downtime"
        /\ prev = NoCall
        /\ prev' = out
        /\ out' = detect_all_student_downtime(order, Steady(clock.time))
        /\ notifications' = notifications \o out'.created
        /\ UNCHANGED <<detector, users, timetable, activities, activity_logs, clock,
                       active_sessions, last_timetable_state, threads>>

NextQuery ==
    \/ create_entry_before_scan
    \/ CallDetectAll
    \/ CallDailySchedule
    \/ CallCurrentSlotCheck
    \/ CallScan
    \/ CallScanAgain
    \/ Return

SpecQuery == InitQuery /\ [][NextQuery]_vars

----------------------------------------------------------------------------
(* Specification SpecToday: the questions about today that the student     *)
(* pages and the scheduler ask (get_current_free_slot,                     *)
(* get_upcoming_free_slots), on a timetable built row by row.              *)

\* Monday 09:00-10:00, 10:30-11:00, 11:00-12:00, 10:00-10:29, 09:30-11:30
\* and 12:00:30-1:00 PM
TodayShapes == {1, 2, 4, 5, 6, 7}

\* the instants of the calls: 10:00:00, 10:15:30, 11:59:15 and 12:00:45
TodayClocks == {T(10, 0), T(10, 15) + 30, T(11, 59) + 15, T(12, 0) + 45}

\* the values of the query parameter `limit`
Limits == {0 - 1, 0, 1, 3}

InitToday ==
    /\ users = DetectUsers
    /\ timetable = <<>>
    /\ clock \in {[date |-> 0, time |-> t] : t \in TodayClocks}
    /\ out = NoCall
    /\ InitRest

create_entry_today == CreateEntry(TodayShapes)

\* GET /api/current-free-time for a student of the course
CallCurrentFreeSlot ==
    /\ out = NoCall
    /\ out' = [op |-> "get_current_free_slot", course |-> "CS",
               day |-> get_day_name(clock.date), now |-> clock.time,
               all_slots |-> detect_all_downtime_for_course("CS",
                                 get_day_name(clock.date),
                                 Steady(clock.time), 0),
               result |-> get_current_free_slot("CS", Steady(clock.time))]
    /\ Unchanged_but_out

\* GET /api/upcoming-free-time?limit=...: limit is any integer of the query
\* string
CallUpcoming ==
    \E limit \in Limits :
        /\ out = NoCall
        /\ out' = [op |-> "get_upcoming_free_slots", course |-> "CS",
                   day |-> get_day_name(clock.date), now |-> clock.time,
                   limit |-> limit,
                   all_slots |-> detect_all_downtime_for_course("CS",
                                     get_day_name(clock.date),
                                     Steady(clock.time), 0),
                   result |-> get_upcoming_free_slots("CS", limit,
                                  Steady(clock.time))]
        /\ Unchanged_but_out

\* the look-up of the student pages (downtime_service) and the look-up of
\* the detector (get_current_free_time_for_student), for the same course at
\* the same instant
CallCurrentBoth ==
    /\ out = NoCall
    /\ out' = [op |-> "current_free_slot_both", course |-> "CS",
               day |-> get_day_name(clock.date), now |-> clock.time,
               service |-> get_current_free_slot("CS", Steady(clock.time)),
               detector |-> _get_current_free_slot("CS",
                                get_day_name(clock.date), clock.time)]
    /\ Unchanged_but_out

NextToday ==
    \/ create_entry_today
    \/ cancel_class
    \/ CallCurrentFreeSlot
    \/ CallUpcoming
    \/ CallCurrentBoth
    \/ Return

SpecToday == InitToday /\ [][NextToday]_vars

----------------------------------------------------------------------------
(* Specification SpecAlerts: the scheduler's job                           *)
(* send_upcoming_free_time_alerts (app/utils/scheduler.py), run every 5    *)
(* minutes, while a teacher may cancel classes.  Thread 1 is the           *)
(* scheduler's.                                                            *)

MaxRuns == 5

\* IntervalTrigger(minutes=5), in seconds
AlertInterval == 5 * 60

\* the second of the first run after 09:40:00
AlertPhases == {0, 1, 30, 59, 60, 61, 120, 180, 240, 299}

\* the notification of send_upcoming_free_time_alerts: its message quotes
\* starts_in_minutes, duration_minutes and the slot's start_time
AlertNote(user_id, slot, date) ==
    [user_id |-> user_id, kind |-> "free_time_soon",
     slot |-> [start_time |-> slot.start_time, end_time |-> slot.end_time],
     date |-> date, starts_in |-> slot.starts_in_minutes,
     minutes |-> slot.duration_minutes]

\* the body of the loop over the students, for one student
AlertsFor(student) ==
    LET upcoming == get_upcoming_free_slots(student.course, 1,
                                            Steady(clock.time))
    IN IF student.course = "" \/ upcoming = <<>> THEN <<>>
       ELSE IF 5 <= upcoming[1].starts_in_minutes
               /\ upcoming[1].starts_in_minutes <= 10
       THEN <<AlertNote(student.id, upcoming[1], clock.date)>>
       ELSE <<>>

\* one execution of the job (no GMAIL_EMAIL: no e-mail is sent)
send_upcoming_free_time_alerts ==
    /\ threads[1].pc = "due"
    /\ LET students == SortedIds({u.id : u \in get_users_by_role("student")})
       IN notifications' = notifications \o
              Flatten([i \in DOMAIN students |->
                          AlertsFor(UserById(students[i]))])
    /\ threads' = [threads EXCEPT ![1].pc = "waiting"]
    /\ UNCHANGED <<detector, users, timetable, activities, activity_logs,
                   clock, active_sessions, last_timetable_state, out, prev>>

\* the interval passes and the job is due again
NextRunDue ==
    /\ threads[1].pc = "waiting"
    /\ threads[1].runs < MaxRuns
    /\ clock' = [clock EXCEPT !.time = @ + AlertInterval]
    /\ threads' = [threads EXCEPT ![1] = [pc |-> "due", runs |-> @.runs + 1]]
    /\ UNCHANGED <<detector, users, timetable, activities, activity_logs,
                   notifications, active_sessions, last_timetable_state,
                   out, prev>>

InitAlerts ==
    /\ users = RTUsers
    /\ timetable = CancelTimetable
    /\ activities = <<>>
    /\ activity_logs = <<>>
    /\ notifications = <<>>
    /\ clock \in {[date |-> 0, time |-> T(9, 40) + p] : p \in AlertPhases}
    /\ active_sessions = <<>>
    /\ last_timetable_state = <<>>
    /\ threads = <<[pc |-> "due", runs |-> 1]>>
    /\ detector = NotStarted
    /\ out = NoCall
    /\ prev = NoCall

NextAlerts ==
    \/ send_upcoming_free_time_alerts
    \/ NextRunDue
    \/ cancel_class

SpecAlerts == InitAlerts /\ [][NextAlerts]_vars

----------------------------------------------------------------------------
(* Specification SpecOdd: the combined detection and the daily agenda on   *)
(* timetables with classes that overlap, are entered twice or end before   *)
(* they start.                                                             *)

\* Monday 09:00-10:00 (rows 1 and 11), 09:30-11:30, 11:00-12:00,
\* 11:30-10:00 and 12:00:30-1:00 PM
OddShapes == {1, 11, 6, 4, 17, 7}

InitOdd ==
    /\ users = DetectUsers
    /\ timetable = <<>>
    /\ clock \in {[date |-> 0, time |-> t] : t \in DetectClocks}
    /\ out = NoCall
    /\ InitRest

create_odd_entry == CreateEntry(OddShapes)

NextOdd ==
    \/ create_odd_entry
    \/ CallDetectAll
    \/ CallDailySchedule
    \/ Return

SpecOdd == InitOdd /\ [][NextOdd]_vars

----------------------------------------------------------------------------
(* Properties of the detection functions                                   *)

\* the rows of the course's timetable on a day with a given status
RowsOn(course, day, status) ==
    {e \in SeqToSet(get_timetable_by_course(course)) :
        Lower(e.day) = Lower(day) /\ Lower(e.status) = status}

WellFormed(e) ==
    /\ parse_time(e.start_time) # Null
    /\ parse_time(e.end_time) # Null
    /\ parse_time(e.start_time) < parse_time(e.end_time)

NonOverlapping(S) ==
    /\ \A e \in S : WellFormed(e)
    /\ \A a, b \in S :
          a # b => \/ parse_time(a.end_time) <= parse_time(b.start_time)
                   \/ parse_time(b.end_time) <= parse_time(a.start_time)

\* b is the class after a in start-time order
AdjacentIn(S, a, b) ==
    /\ a # b
    /\ parse_time(a.start_time) < parse_time(b.start_time)
    /\ ~ \E c \in S : /\ parse_time(a.start_time) < parse_time(c.start_time)
                      /\ parse_time(c.start_time) < parse_time(b.start_time)

GapOf(a, b) == parse_time(b.start_time) - parse_time(a.end_time)

IsGapSlotOf(slot, a, b) ==
    /\ slot.start_time = strftime_HM(parse_time(a.end_time))
    /\ slot.end_time = strftime_HM(parse_time(b.start_time))
    /\ slot.duration_minutes = GapOf(a, b) \div 60
    /\ slot.reason = "timetable_gap"

\* C1: for non-overlapping scheduled entries of a day,
\* detect_downtime_for_course emits exactly one timetable_gap slot per
\* adjacent pair (in start-time order) whose gap is >= the threshold, and
\* none for a smaller gap (a gap of exactly DOWNTIME_THRESHOLD minutes is
\* emitted, one of DOWNTIME_THRESHOLD - 1 minutes is not).
C1_GapPerAdjacentPair ==
    out.op = "detect_downtime_for_course" =>
        LET S == RowsOn(out.course, out.day, "scheduled")
            wide == {p \in S \X S :
                        /\ AdjacentIn(S, p[1], p[2])
                        /\ GapOf(p[1], p[2]) >= DOWNTIME_THRESHOLD * 60}
        IN NonOverlapping(S) =>
              /\ Len(out.result) = Cardinality(wide)
              /\ \A p \in wide : \E i \in DOMAIN out.result :
                    IsGapSlotOf(out.result[i], p[1], p[2])
              /\ \A i \in DOMAIN out.result : \E p \in wide :
                    IsGapSlotOf(out.result[i], p[1], p[2])

\* the spec's scenario: 09:00-10:00 and 11:00-12:00 give one slot
\* 10:00-11:00 of 60 minutes
C1_Witness ==
    /\ out.op = "detect_downtime_for_course"
    /\ out.day = "Monday"
    /\ {e.id : e \in RowsOn(out.course, out.day, "scheduled")} = {1, 4}
    /\ Len(out.result) = 1
    /\ out.result[1].start_time = HM(10, 0)
    /\ out.result[1].end_time = HM(11, 0)
    /\ out.result[1].duration_minutes = 60

\* a gap of exactly the threshold was emitted
C1_ReachedExactThreshold ==
    /\ out.op = "detect_downtime_for_course"
    /\ {e.id : e \in RowsOn(out.course, out.day, "scheduled")} = {1, 2}
    /\ Len(out.result) = 1
    /\ out.result[1].duration_minutes = DOWNTIME_THRESHOLD

\* a gap one minute short of the threshold was not
C1_ReachedBelowThreshold ==
    /\ out.op = "detect_downtime_for_course"
    /\ {e.id : e \in RowsOn(out.course, out.day, "scheduled")} = {1, 3}
    /\ out.result = <<>>

\* key of the sort of the day's entries
SortKeyOf(e) ==
    IF parse_time(e.start_time) = Null THEN 0 ELSE parse_time(e.start_time)

\* b can directly follow a when the day's entries are sorted by start time
NextInOrder(S, a, b) ==
    /\ a # b
    /\ SortKeyOf(a) <= SortKeyOf(b)
    /\ ~ \E c \in S : /\ SortKeyOf(a) < SortKeyOf(c)
                      /\ SortKeyOf(c) < SortKeyOf(b)

\* C2: every timetable_gap slot starts at the end of a scheduled class of
\* the day and ends at the start of the next scheduled class; nothing is
\* emitted before the first or after the last scheduled class, and a day
\* with fewer than two scheduled classes yields no slot.
C2_GapsOnlyBetweenClasses ==
    out.op = "detect_downtime_for_course" =>
        LET S == RowsOn(out.course, out.day, "scheduled")
        IN /\ Cardinality(S) < 2 => out.result = <<>>
           /\ \A i \in DOMAIN out.result :
                 /\ out.result[i].reason = "timetable_gap"
                 /\ \E a, b \in S :
                       /\ NextInOrder(S, a, b)
                       /\ parse_time(a.end_time) # Null
                       /\ parse_time(b.start_time) # Null
                       /\ out.result[i].start_time =
                              strftime_HM(parse_time(a.end_time))
                       /\ out.result[i].end_time =
                              strftime_HM(parse_time(b.start_time))
                 /\ \E e \in S : /\ parse_time(e.end_time) # Null
                                  /\ parse_time(e.end_time) \div 60 <=
                                       parse_time(out.result[i].start_time)
                                           \div 60
                 /\ \E e \in S : /\ parse_time(e.start_time) # Null
                                  /\ parse_time(out.result[i].end_time)
                                       <= parse_time(e.start_time)

\* a cancelled class lies between two scheduled ones: one slot, from the
\* end of the first scheduled class to the start of the next scheduled one
C2_Witness ==
    /\ out.op = "detect_downtime_for_course"
    /\ \E e \in RowsOn(out.course, out.day, "cancelled") : e.id = 2
    /\ {e.id : e \in RowsOn(out.course, out.day, "scheduled")} = {1, 4}
    /\ Len(out.result) = 1
    /\ out.result[1].start_time = HM(10, 0)
    /\ out.result[1].end_time = HM(11, 0)

\* the cancelled entries of the day that make a slot, in timetable order
LongCancelled(course, day) ==
    SelectSeq(get_timetable_by_course(course),
        LAMBDA e : /\ Lower(e.day) = Lower(day)
                   /\ Lower(e.status) = "cancelled"
                   /\ parse_time(e.start_time) # Null
                   /\ parse_time(e.end_time) # Null
                   /\ parse_time(e.end_time) - parse_time(e.start_time)
                          >= DOWNTIME_THRESHOLD * 60)

\* C3: detect_cancelled_class_slots emits, for each cancelled entry of the
\* course and day, exactly one class_cancelled slot over the entry's own
\* start and end when end - start >= the threshold, and none otherwise;
\* the result is determined by the cancelled entries alone.
C3_CancelledSlotsOwnSpan ==
    out.op = "detect_cancelled_class_slots" =>
        LET E == LongCancelled(out.course, out.day)
        IN /\ Len(out.result) = Len(E)
           /\ \A i \in DOMAIN out.result :
                 /\ out.result[i].reason = "class_cancelled"
                 /\ out.result[i].start_time =
                        strftime_HM(parse_time(E[i].start_time))
                 /\ out.result[i].end_time =
                        strftime_HM(parse_time(E[i].end_time))
                 /\ out.result[i].duration_minutes =
                        (parse_time(E[i].end_time)
                             - parse_time(E[i].start_time)) \div 60

\* a cancelled class of exactly the threshold between two scheduled classes
\* that leave no gap around it: its own slot is emitted; a second cancelled
\* class of 29 minutes is not
C3_Witness ==
    /\ out.op = "detect_cancelled_class_slots"
    /\ out.day = "Monday"
    /\ {e.id : e \in RowsOn(out.course, out.day, "cancelled")} = {2, 5}
    /\ \E e \in RowsOn(out.course, out.day, "scheduled") : e.id = 4
    /\ Len(out.result) = 1
    /\ out.result[1].start_time = HM(10, 30)
    /\ out.result[1].end_time = HM(11, 0)
    /\ out.result[1].duration_minutes = DOWNTIME_THRESHOLD

RECURSIVE TotalMinutes(_, _)
\* the durations of slots[1..n] added up
TotalMinutes(slots, n) ==
    IF n = 0 THEN 0
    ELSE TotalMinutes(slots, n - 1) + slots[n].duration_minutes

\* C7: get_weekly_free_time_summary returns exactly the seven day names as
\* keys for any course, also one without timetable entries; per day
\* total_free_minutes is the sum of the slots' duration_minutes and
\* slot_count their number (0 and the empty list for a day without data).
C7_WeeklySevenDays ==
    out.op = "get_weekly_free_time_summary" =>
        /\ DOMAIN out.result = {"Monday", "Tuesday", "Wednesday", "Thursday",
                                "Friday", "Saturday", "Sunday"}
        /\ \A d \in DOMAIN out.result :
              /\ out.result[d].slot_count = Len(out.result[d].slots)
              /\ out.result[d].total_free_minutes =
                     TotalMinutes(out.result[d].slots,
                                  Len(out.result[d].slots))
              /\ \A i \in DOMAIN out.result[d].slots :
                     Lower(out.result[d].slots[i].day) = Lower(d)
              /\ (\A e \in SeqToSet(get_timetable_by_course(out.course)) :
                        Lower(e.day) # Lower(d))
                     => /\ out.result[d].slots = <<>>
                        /\ out.result[d].total_free_minutes = 0
                        /\ out.result[d].slot_count = 0

\* a week with two slots on Monday and nothing on the other days
C7_Witness ==
    /\ out.op = "get_weekly_free_time_summary"
    /\ "Sunday" \in DOMAIN out.result
    /\ out.result["Monday"].slot_count = 2
    /\ out.result["Monday"].total_free_minutes >= 2 * DOWNTIME_THRESHOLD
    /\ out.result["Sunday"].slot_count = 0
    /\ out.result["Sunday"].total_free_minutes = 0

\* the summary of a course without any timetable entry
C7_ReachedEmptyCourse ==
    /\ out.op = "get_weekly_free_time_summary"
    /\ timetable # <<>>
    /\ get_timetable_by_course(out.course) = <<>>
    /\ Cardinality(DOMAIN out.result) = 7

\* C4: for every slot the detector emits, is_current and is_upcoming are
\* never both true, also when the two flags come from two separate clock
\* reads of which the second is not earlier than the first.
C4_FlagsExclusive ==
    out.op = "detect_all_downtime_for_course" =>
        \A i \in DOMAIN out.result :
            ~ (out.result[i].is_current /\ out.result[i].is_upcoming)

\* C4 with both reads on one calendar day
C4_FlagsExclusiveSameDay ==
    (out.op = "detect_all_downtime_for_course"
        /\ out.first.date = out.later.date) =>
        \A i \in DOMAIN out.result :
            ~ (out.result[i].is_current /\ out.result[i].is_upcoming)

----------------------------------------------------------------------------
(* Properties of the recommendation functions                              *)

\* the catalog rows a course can see: its own, the universal ones and the
\* ones tagged "General"
VisibleTo(course) ==
    {a \in SeqToSet(activities) : a.course \in {course, "", "General"}}

\* C5: get_recommended_activities never returns an activity whose
\* duration_minutes exceeds the requested budget, for any catalog, course
\* and filters; an activity as long as the budget is eligible.
C5_WithinBudget ==
    out.op = "get_recommended_activities" =>
        /\ \A i \in DOMAIN out.result :
              /\ out.result[i].duration_minutes <= out.duration_minutes
              /\ \E a \in SeqToSet(activities) :
                    /\ a.id = out.result[i].id
                    /\ a.duration_minutes = out.result[i].duration_minutes
        /\ \A a \in VisibleTo(out.course) :
              a.duration_minutes = out.duration_minutes =>
                  \E i \in DOMAIN out.result : out.result[i].id = a.id

\* the catalog holds an activity longer than the budget and one exactly as
\* long: the first is left out, the second returned
C5_Witness ==
    /\ out.op = "get_recommended_activities"
    /\ \E a \in VisibleTo(out.course) :
          a.duration_minutes > out.duration_minutes
    /\ \E i \in DOMAIN out.result :
          out.result[i].duration_minutes = out.duration_minutes
    /\ \E i \in DOMAIN out.result :
          out.result[i].duration_minutes < out.duration_minutes

PositionOf(result, id) == CHOOSE i \in DOMAIN result : result[i].id = id
IdsOf(result) == {result[i].id : i \in DOMAIN result}
ScoreOf(result, id) == result[PositionOf(result, id)].relevance_score

NonIncreasing(result) ==
    \A i, j \in DOMAIN result :
        i < j => result[i].relevance_score >= result[j].relevance_score

\* C6: the list get_recommended_activities returns is in non-increasing
\* relevance_score order whatever the shuffle; across two calls with the
\* same inputs an activity of strictly higher score precedes one of
\* strictly lower score in both, and only activities of equal score change
\* their relative order.
C6_ScoreOrderStable ==
    out.op = "get_recommended_activities" =>
        /\ NonIncreasing(out.result)
        /\ prev # NoCall =>
              /\ IdsOf(prev.result) = IdsOf(out.result)
              /\ Len(prev.result) = Len(out.result)
              /\ \A a, b \in IdsOf(out.result) :
                    /\ ScoreOf(prev.result, a) = ScoreOf(out.result, a)
                    /\ ScoreOf(out.result, a) > ScoreOf(out.result, b) =>
                          /\ PositionOf(out.result, a)
                                 < PositionOf(out.result, b)
                          /\ PositionOf(prev.result, a)
                                 < PositionOf(prev.result, b)
                    /\ ((PositionOf(prev.result, a)
                             < PositionOf(prev.result, b))
                          # (PositionOf(out.result, a)
                                 < PositionOf(out.result, b))) =>
                          ScoreOf(out.result, a) = ScoreOf(out.result, b)

\* two calls whose results differ in the order of a tie and agree on the
\* place of an activity of higher score
C6_Witness ==
    /\ out.op = "get_recommended_activities"
    /\ prev # NoCall
    /\ Len(out.result) = 3
    /\ prev.result # out.result
    /\ out.result[1].relevance_score > out.result[2].relevance_score
    /\ out.result[2].relevance_score = out.result[3].relevance_score
    /\ prev.result[1].id = out.result[1].id
    /\ prev.result[2].id = out.result[3].id

----------------------------------------------------------------------------
(* Properties of the real-time detector                                    *)

\* the notifications of one kind a student got for one slot on one date
NotesFor(user_id, kind, date, slot) ==
    {i \in DOMAIN notifications :
        /\ notifications[i].user_id = user_id
        /\ notifications[i].kind = kind
        /\ notifications[i].date = date
        /\ notifications[i].slot = slot}

SlotsNotified == {notifications[i].slot : i \in DOMAIN notifications}

StudentIds == {u.id : u \in get_users_by_role("student")}

SuggestedLogs(student_id) ==
    {i \in DOMAIN activity_logs :
        /\ activity_logs[i].student_id = student_id
        /\ activity_logs[i].start_time = "suggested"}

Within(slot, time) ==
    parse_time(slot.start_time) <= time /\ time < parse_time(slot.end_time)

\* C8: when the sweeps of _detect_current_free_time run one after the other,
\* a student gets at most one "free time now" notification and at most one
\* auto-assignment (its notification and its activity log) for one slot on
\* one day, however many sweeps fall inside the slot.
C8_AtMostOncePerSlot ==
    \A id \in StudentIds :
        /\ \A date \in RTDates : \A slot \in SlotsNotified :
              /\ Cardinality(NotesFor(id, "free_time_now", date, slot)) <= 1
              /\ Cardinality(NotesFor(id, "auto_suggested", date, slot)) <= 1
        /\ Cardinality(SuggestedLogs(id)) <=
              Cardinality({i \in DOMAIN notifications :
                  /\ notifications[i].user_id = id
                  /\ notifications[i].kind = "free_time_now"})

\* a later sweep, inside the slot s1 and s2 were already notified for, has
\* passed s1 and is at s2
C8_Witness ==
    \E t \in DOMAIN threads :
        /\ threads[t].pc = "loop"
        /\ threads[t].todo = <<"s2">>
        /\ \A id \in {"s1", "s2"} :
              /\ <<id, threads[t].day>> \in DOMAIN active_sessions
              /\ \E i \in DOMAIN notifications :
                    /\ notifications[i].user_id = id
                    /\ notifications[i].kind = "free_time_now"
                    /\ notifications[i].date = threads[t].date
                    /\ Within(notifications[i].slot, threads[t].time)

\* a student of the sweep who is inside a free slot for which, on the date
\* of the sweep, no "free time now" notification was made yet
FreshSlotAt(t) ==
    LET th == threads[t]
        student == UserById(Head(th.todo))
        free_slot == _get_current_free_slot(student.course, th.day, th.time)
    IN /\ free_slot \notin {NoSlot, Raised}
       /\ NotesFor(student.id, "free_time_now", th.date,
                   [start_time |-> free_slot.start_time,
                    end_time |-> free_slot.end_time]) = {}

\* C9: a sweep that finds a student inside a free slot not yet notified for
\* on that date (another window of the same day, or a slot of a later date)
\* goes on to create the notification.
C9_FreshNotification ==
    [][\A t \in DOMAIN threads :
          (threads[t].pc = "loop" /\ threads'[t] # threads[t] /\ FreshSlotAt(t))
              => threads'[t].pc = "notify"]_vars

\* the same, for the same weekday one week later only
C9_SameWeekdayNextWeek ==
    [][\A t \in DOMAIN threads :
          (/\ threads[t].pc = "loop"
           /\ threads'[t] # threads[t]
           /\ FreshSlotAt(t)
           /\ threads[t].date = 7
           /\ \A i \in DOMAIN notifications : notifications[i].date = 0)
              => threads'[t].pc = "notify"]_vars

\* C10: of two interleaved executions of the sweep that find the same student
\* inside a free slot on the same day, at most one creates the "free time
\* now" notification.
C10_OneWinner ==
    \A id \in StudentIds : \A date \in RTDates :
        Cardinality({i \in DOMAIN notifications :
            /\ notifications[i].user_id = id
            /\ notifications[i].kind = "free_time_now"
            /\ notifications[i].date = date}) <= 1

\* the membership test and the insertion exclude each other: no two
\* executions are between them for the same key
C10_TestAndInsertExclusive ==
    \A a \in DOMAIN threads : \A b \in DOMAIN threads :
        (a # b /\ threads[a].pc = "notify" /\ threads[b].pc = "notify")
            => <<Head(threads[a].todo), threads[a].day>>
               # <<Head(threads[b].todo), threads[b].day>>

----------------------------------------------------------------------------
(* Properties of the detection loop's iteration                            *)

\* ids present in both snapshots, scheduled before and cancelled now
DiffIds(before, now) ==
    {e.id : e \in {x \in SeqToSet(now) :
        /\ x.status = "cancelled"
        /\ \E p \in SeqToSet(before) : p.id = x.id /\ p.status = "scheduled"}}

HandledLog == IF prev.op = "iteration" THEN prev.log ELSE <<>>

\* C11: a sweep of _check_for_cancellations handles, for every course,
\* exactly the entries whose id is in the stored snapshot and in the current
\* timetable, scheduled there and cancelled here, each once; the snapshot
\* then is the current timetable; so no entry is handled by two sweeps and
\* an entry first seen cancelled is never handled.
C11_CancellationDiff ==
    /\ [][\A t \in DOMAIN threads :
            (threads[t].pc = "idle" /\ threads'[t].pc = "checked") =>
                \A c \in StudentCourses :
                    /\ {prev'.handled[c][i].id : i \in DOMAIN prev'.handled[c]}
                           = DiffIds(previous_state(c),
                                     get_timetable_by_course(c))
                    /\ Len(prev'.handled[c])
                           = Cardinality(DiffIds(previous_state(c),
                                             get_timetable_by_course(c)))
                    /\ last_timetable_state'[c] = get_timetable_by_course(c)
         ]_vars
    /\ [](/\ \A i, j \in DOMAIN HandledLog :
                HandledLog[i] = HandledLog[j] => i = j
          /\ \A i \in DOMAIN HandledLog : \A k \in DOMAIN LoopTimetable :
                LoopTimetable[k].status = "cancelled"
                    => HandledLog[i].id # LoopTimetable[k].id)

\* a class was cancelled, one sweep handled it, and the latest sweep found it
\* still cancelled and handled nothing
C11_Witness ==
    /\ prev.op = "iteration"
    /\ \E c \in StudentCourses :
          /\ \E i \in DOMAIN prev.log : prev.log[i].course = c
          /\ prev.handled[c] = <<>>
          /\ \E k \in DOMAIN prev.timetable : \E i \in DOMAIN prev.log :
                /\ prev.timetable[k].id = prev.log[i].id
                /\ prev.timetable[k].status = "cancelled"
                /\ prev.log[i].course = c

HandledIds == {HandledLog[i].id : i \in DOMAIN HandledLog}

EntryById(id) == CHOOSE e \in SeqToSet(timetable) : e.id = id

CancellationNotes(user_id, id) ==
    {i \in DOMAIN notifications :
        /\ notifications[i].user_id = user_id
        /\ notifications[i].kind = "class_cancelled"
        /\ notifications[i].entry_id = id}

NotesOfKind(user_id, kind) ==
    {i \in DOMAIN notifications :
        notifications[i].user_id = user_id /\ notifications[i].kind = kind}

\* C12: for every cancellation a sweep detected, each student of the
\* entry's course (course texts compared without regard to letter case) has
\* exactly one cancellation notification, whose free minutes are end minus
\* start of the entry, and at most one recommended activity for it; users
\* who are not students of that course have none.
C12_OneNotePerCancellation ==
    \A id \in HandledIds : \A u \in users :
        IF u.role = "student"
           /\ Lower(u.course) = Lower(EntryById(id).course)
        THEN /\ Cardinality(CancellationNotes(u.id, id)) = 1
             /\ \A i \in CancellationNotes(u.id, id) :
                   notifications[i].minutes * 60 =
                       parse_time(EntryById(id).end_time)
                           - parse_time(EntryById(id).start_time)
             /\ Cardinality(NotesOfKind(u.id, "auto_suggested"))
                   <= Cardinality(HandledIds)
                      + Cardinality(NotesOfKind(u.id, "free_time_now"))
        ELSE CancellationNotes(u.id, id) = {}

----------------------------------------------------------------------------
(* Properties of the personalized recommendations                          *)

\* the completed logs of a student, most recent first
CompletedLogs(student_id) ==
    SelectSeq(get_activity_logs_by_student(student_id),
              LAMBDA log : log.status = "completed")

\* the ids in the 10 most recent completed logs
RecentIds(student_id) ==
    {CompletedLogs(student_id)[i].activity_id :
        i \in {j \in DOMAIN CompletedLogs(student_id) : j <= RecentWindow}}

\* the ids that are in older completed logs only
OlderOnlyIds(student_id) ==
    {CompletedLogs(student_id)[i].activity_id :
        i \in DOMAIN CompletedLogs(student_id)} \ RecentIds(student_id)

\* C13: when a candidate survives the exclusion, the personalized list holds
\* no activity of the student's 10 most recent completed logs, and an
\* activity that is in older completed logs only is not excluded.
C13_RecentTenExcluded ==
    (/\ out.op = "get_personalized_recommendations"
     /\ \E i \in DOMAIN out.call.recommendations :
           out.call.recommendations[i].id \notin RecentIds(out.student_id)) =>
        /\ \A i \in DOMAIN out.call.result :
              out.call.result[i].id \notin RecentIds(out.student_id)
        /\ \A i \in DOMAIN out.call.recommendations :
              out.call.recommendations[i].id \in OlderOnlyIds(out.student_id)
                  => out.call.recommendations[i].id \in IdsOf(out.call.result)

\* C13 for a student with at most 10 completed logs
C13_UpToTenLogs ==
    Len(CompletedLogs("s1")) <= RecentWindow => C13_RecentTenExcluded

\* what get_recommended_activities returns for the request of the call, no
\* filter given
PlainRecommend ==
    get_recommended_activities(out.course, out.duration_minutes, "", "", "",
                               out.perm)

CompletedIds(student_id) ==
    {CompletedLogs(student_id)[i].activity_id :
        i \in DOMAIN CompletedLogs(student_id)}

\* C14: the personalized list is the recommend list without activities the
\* history excludes, in the same order, or the whole recommend list when
\* the exclusion leaves nothing; it is empty only if the recommend list for
\* the same course and budget is empty and holds nothing recommend would
\* not return.
C14_ExclusionOrFallback ==
    out.op = "get_personalized_recommendations" =>
        /\ IdsOf(out.call.result) \subseteq IdsOf(PlainRecommend)
        /\ IdsOf(out.call.recommendations) = IdsOf(PlainRecommend)
        /\ out.call.result = <<>> <=> PlainRecommend = <<>>
        /\ (IdsOf(out.call.recommendations) \ IdsOf(out.call.result))
               \subseteq CompletedIds(out.student_id)
        /\ Len(out.call.result) = Cardinality(IdsOf(out.call.result))
        /\ \A a, b \in IdsOf(out.call.result) :
              PositionOf(out.call.result, a) < PositionOf(out.call.result, b)
                  => PositionOf(out.call.recommendations, a)
                         < PositionOf(out.call.recommendations, b)

\* every recommended activity is excluded by the history and the whole list
\* is returned
C14_Witness ==
    /\ out.op = "get_personalized_recommendations"
    /\ Len(out.call.recommendations) = 2
    /\ IdsOf(out.call.recommendations) \subseteq
           {LastTen(CompletedLogs(out.student_id))[i].activity_id :
               i \in DOMAIN LastTen(CompletedLogs(out.student_id))}
    /\ out.call.result = out.call.recommendations

\* one of two recommended activities is excluded
C14_ReachedExclusion ==
    /\ out.op = "get_personalized_recommendations"
    /\ Len(out.call.recommendations) = 2
    /\ Len(out.call.result) = 1

\* how many of the 10 most recent completed logs are of the category
RecentCount(student_id, category) ==
    Cardinality({i \in DOMAIN CompletedLogs(student_id) :
        /\ i <= RecentWindow
        /\ CategoryOfLog(CompletedLogs(student_id)[i]) = category})

\* C15: a student with 8 Wellness logs among the 10 most recent completed
\* logs gets Wellness as preferred category, whatever the older completed
\* logs are; the preferred category is one of highest count among the
\* completed logs.
C15_RecentCategoryPreferred ==
    out.op = "get_personalized_recommendations" =>
        /\ RecentCount(out.student_id, "Wellness") >= 8
              => out.call.preferred_category = "Wellness"
        /\ CompletedLogs(out.student_id) # <<>> =>
              \A i \in DOMAIN CompletedLogs(out.student_id) :
                  CategoryCount(CompletedLogs(out.student_id),
                      CategoryOfLog(CompletedLogs(out.student_id)[i]))
                  <= CategoryCount(CompletedLogs(out.student_id),
                         out.call.preferred_category)

\* C15 for a student with at most 10 completed logs
C15_UpToTenLogs ==
    Len(CompletedLogs("s1")) <= RecentWindow => C15_RecentCategoryPreferred

----------------------------------------------------------------------------
(* Course points in the recommendation                                     *)

NoFilter == [category |-> "", difficulty |-> "", mode |-> ""]

\* a course-specific activity a and a universal activity b of the same
\* duration are both returned, a with 15 points more than b and before it
CourseBeforeUniversal(a, b) ==
    /\ a.id \in IdsOf(out.result)
    /\ b.id \in IdsOf(out.result)
    /\ ScoreOf(out.result, a.id) = ScoreOf(out.result, b.id) + 15
    /\ PositionOf(out.result, a.id) < PositionOf(out.result, b.id)

\* C16: no filter given, an activity whose course is the requested course
\* (letter case disregarded) gets 30 course points and an activity without
\* course 15; so of two activities of equal duration within the budget the
\* course-specific one has the higher relevance_score and precedes the
\* universal one in the list get_recommended_activities returns.
C16_CourseOutranksUniversal ==
    (out.op = "get_recommended_activities" /\ out.filters = NoFilter) =>
        \A a, b \in SeqToSet(activities) :
            (/\ a.course # ""
             /\ Lower(a.course) = Lower(out.course)
             /\ b.course = ""
             /\ a.duration_minutes = b.duration_minutes
             /\ a.duration_minutes <= out.duration_minutes)
                => CourseBeforeUniversal(a, b)

\* C16 for a request that spells the course as the activities do
C16_SameSpelling ==
    (out.op = "get_recommended_activities" /\ out.filters = NoFilter) =>
        \A a, b \in SeqToSet(activities) :
            (/\ a.course = out.course
             /\ b.course = ""
             /\ a.duration_minutes = b.duration_minutes
             /\ a.duration_minutes <= out.duration_minutes)
                => CourseBeforeUniversal(a, b)

----------------------------------------------------------------------------
(* Properties of the combined detection, the checks and the scan           *)

Occurrences(q, x) == Cardinality({i \in DOMAIN q : q[i] = x})

\* C20: detect_all_downtime_for_course returns the gap slots and the
\* cancelled slots of the day, each as often as detected, in ascending
\* order of start time, a gap slot before a cancelled slot of the same
\* start time.
C20_AllSlotsOrdered ==
    out.op = "detect_all_downtime_for_course" =>
        /\ Len(out.result) = Len(out.gap_slots) + Len(out.cancelled_slots)
        /\ \A x \in SeqToSet(out.result) \cup SeqToSet(out.gap_slots)
                    \cup SeqToSet(out.cancelled_slots) :
              Occurrences(out.result, x) =
                  Occurrences(out.gap_slots, x)
                      + Occurrences(out.cancelled_slots, x)
        /\ \A i, j \in DOMAIN out.result :
              i < j =>
                  /\ parse_time(out.result[i].start_time)
                         <= parse_time(out.result[j].start_time)
                  /\ (/\ out.result[i].start_time = out.result[j].start_time
                      /\ out.result[i].reason # out.result[j].reason)
                         => out.result[i].reason = "timetable_gap"

\* a gap slot and a cancelled slot of the same start time
C20_Witness ==
    /\ out.op = "detect_all_downtime_for_course"
    /\ \E i, j \in DOMAIN out.result :
          /\ i < j
          /\ out.result[i].start_time = out.result[j].start_time
          /\ out.result[i].reason = "timetable_gap"
          /\ out.result[j].reason = "class_cancelled"

\* a cancelled slot that starts before a gap slot: the sort moves it ahead
C20_ReachedReorder ==
    /\ out.op = "detect_all_downtime_for_course"
    /\ \E i \in DOMAIN out.cancelled_slots : \E j \in DOMAIN out.gap_slots :
          parse_time(out.cancelled_slots[i].start_time)
              < parse_time(out.gap_slots[j].start_time)

\* C17: a sweep run a second time at the same instant on unchanged data
\* creates nothing more: the second detect_all_student_downtime creates no
\* notification.
C17_SecondScanCreatesNothing ==
    (out.op = "detect_all_student_downtime"
        /\ prev.op = "detect_all_student_downtime") =>
            /\ out.created = <<>>
            /\ notifications = prev.created

\* C17 for the detection loop: an iteration that repeats the one before at
\* the same instant on the same timetable changes no notification, activity
\* log, session or snapshot
C17_LoopIdempotent ==
    [][(/\ prev'.op = "iteration"
        /\ prev'.repeats
        /\ clock = prev'.clock
        /\ timetable = prev'.timetable
        /\ threads' # threads) =>
            /\ notifications' = notifications
            /\ activity_logs' = activity_logs
            /\ active_sessions' = active_sessions
            /\ last_timetable_state' = last_timetable_state]_vars

\* C18: an entry whose start or end text has none of the accepted formats
\* makes none of gap detection, cancelled-slot detection, the daily
\* schedule and the detector's current-slot check raise.
C18_MalformedNeverRaises ==
    /\ out.op \in {"detect_all_downtime_for_course",
                   "get_daily_schedule_with_gaps"} =>
          \A i \in DOMAIN out.result : out.result[i] # Raised
    /\ out.op = "_get_current_free_slot" => out.result # Raised

\* C18 for timetables in which every scheduled class of the day has a start
\* text of an accepted format
C18_ParsableStarts ==
    (\A i \in DOMAIN timetable :
        (timetable[i].status = "scheduled"
            /\ Lower(timetable[i].day) = Lower(get_day_name(clock.date)))
                => parse_time(timetable[i].start_time) # Null)
        => C18_MalformedNeverRaises

\* C19: detect_all_student_downtime does not raise; it returns one record
\* and creates one notification for every pair of a student and a free slot
\* of the student's course today, active slots included.
C19_ScanNeverRaises ==
    out.op = "detect_all_student_downtime" =>
        /\ ~ out.raised
        /\ Len(out.result) = Len(out.rounds)
        /\ Len(out.created) = Len(out.rounds)
        /\ \A i \in DOMAIN out.rounds :
              /\ out.result[i] = out.rounds[i]
              /\ out.created[i].user_id = out.rounds[i].student_id

\* C19 for scans at which no free slot is active
C19_NoActiveSlot ==
    (out.op = "detect_all_student_downtime"
        /\ \A i \in DOMAIN out.rounds : ~ out.rounds[i].slot.is_current)
            => C19_ScanNeverRaises

\* the slots of a result that are current
CurrentIn(all_slots) == {i \in DOMAIN all_slots : all_slots[i].is_current}

\* r is the number of whole minutes from `now` to the time the text shows
IsWholeMinutes(r, txt, now) ==
    /\ r >= 0
    /\ parse_time(txt) >= now =>
          (r * 60 <= parse_time(txt) - now /\ parse_time(txt) - now < r * 60 + 60)
    /\ parse_time(txt) < now => r = 0

\* C21: get_current_free_slot returns the first slot, in the order of
\* detect_all_downtime_for_course for today, whose is_current is true, with
\* remaining_minutes the whole minutes from now to the slot's end_time,
\* between 0 and its duration_minutes; it returns no slot when none is
\* current.
C21_FirstCurrentWithRemaining ==
    out.op = "get_current_free_slot" =>
        IF CurrentIn(out.all_slots) = {} THEN out.result = NoSlot
        ELSE LET slot == out.all_slots[Least(CurrentIn(out.all_slots))]
             IN /\ out.result # NoSlot
                /\ \A f \in DOMAIN slot : out.result[f] = slot[f]
                /\ IsWholeMinutes(out.result.remaining_minutes,
                                  slot.end_time, out.now)
                /\ out.result.remaining_minutes <= slot.duration_minutes

\* two slots are current, the first of them is returned, and the time to
\* its end is not a whole number of minutes
C21_Witness ==
    /\ out.op = "get_current_free_slot"
    /\ Cardinality(CurrentIn(out.all_slots)) >= 2
    /\ out.result # NoSlot
    /\ (parse_time(out.result.end_time) - out.now) % 60 # 0
    /\ out.result.remaining_minutes > 0

\* a slot that started 15 seconds ago has its whole duration remaining
C21_ReachedWholeDuration ==
    /\ out.op = "get_current_free_slot"
    /\ out.result # NoSlot
    /\ out.result.remaining_minutes = out.result.duration_minutes

\* there are slots today and none is current
C21_ReachedNoneCurrent ==
    /\ out.op = "get_current_free_slot"
    /\ out.all_slots # <<>>
    /\ out.result = NoSlot

\* today's slots that are upcoming, in the order of the detection
UpcomingIn(all_slots) == SelectSeq(all_slots, LAMBDA slot : slot.is_upcoming)

\* C22: get_upcoming_free_slots(course, limit) returns the first
\* min(limit, n) of today's n upcoming slots (none for a limit below 0), in
\* ascending order of start time, each with starts_in_minutes the whole
\* minutes from now to its start_time; no slot that has started is returned.
C22_UpcomingFirstLimit ==
    out.op = "get_upcoming_free_slots" =>
        LET upcoming == UpcomingIn(out.all_slots)
        IN /\ Len(out.result) =
                  (IF out.limit < 0 THEN 0
                   ELSE Min(out.limit, Len(upcoming)))
           /\ \A i \in DOMAIN out.result :
                 /\ i \in DOMAIN upcoming
                 /\ \A f \in DOMAIN upcoming[i] :
                       out.result[i][f] = upcoming[i][f]
                 /\ IsWholeMinutes(out.result[i].starts_in_minutes,
                                   out.result[i].start_time, out.now)
                 /\ out.result[i].is_upcoming
                 /\ ~ out.result[i].is_current
                 /\ parse_time(out.result[i].start_time) + 60 > out.now
           /\ \A i, j \in DOMAIN out.result :
                 i < j => parse_time(out.result[i].start_time)
                              <= parse_time(out.result[j].start_time)

\* C22 for a limit that is not negative
C22_NonNegativeLimit ==
    (out.op = "get_upcoming_free_slots" /\ out.limit >= 0)
        => C22_UpcomingFirstLimit

\* two upcoming slots of which the limit keeps one, and a start that is not
\* a whole number of minutes away
C22_ReachedTruncation ==
    /\ out.op = "get_upcoming_free_slots"
    /\ out.limit = 1
    /\ Len(UpcomingIn(out.all_slots)) >= 2
    /\ Len(out.result) = 1
    /\ (parse_time(out.result[1].start_time) - out.now) % 60 # 0

----------------------------------------------------------------------------
(* Properties of the daily agenda                                          *)

\* the time an agenda item is placed at: its parsed start, 00:00 for a
\* start text that does not parse
ItemStart(item) ==
    IF parse_time(item.start_time) = Null THEN 0
    ELSE parse_time(item.start_time)

\* the gap from the end of one class item to the start of another meets the
\* threshold
WideGap(a, b) ==
    /\ parse_time(a.end_time) # Null
    /\ parse_time(b.start_time) # Null
    /\ parse_time(b.start_time) - parse_time(a.end_time)
           >= DOWNTIME_THRESHOLD * 60

\* one class item per entry of the day, whatever its status
ClassItemPerEntry(schedule, course, day) ==
    LET entries == {e \in SeqToSet(get_timetable_by_course(course)) :
                        Lower(e.day) = Lower(day)}
        classes == {i \in DOMAIN schedule : schedule[i].type = "class"}
    IN /\ Cardinality(classes) = Cardinality(entries)
       /\ \A e \in entries : \E i \in classes :
             /\ schedule[i].id = e.id
             /\ schedule[i].status = e.status
             /\ schedule[i].start_time = e.start_time
             /\ schedule[i].end_time = e.end_time

\* a free_time item between two adjacent class items exactly when the gap
\* between them meets the threshold
FreeTimeExactlyInWideGaps(schedule) ==
    /\ \A i \in DOMAIN schedule :
          schedule[i].type = "free_time" =>
              /\ i > 1
              /\ i < Len(schedule)
              /\ schedule[i - 1].type = "class"
              /\ schedule[i + 1].type = "class"
              /\ WideGap(schedule[i - 1], schedule[i + 1])
              /\ schedule[i].start_time =
                     strftime_HM(parse_time(schedule[i - 1].end_time))
              /\ schedule[i].end_time =
                     strftime_HM(parse_time(schedule[i + 1].start_time))
    /\ \A i \in 1..(Len(schedule) - 1) :
          (schedule[i].type = "class" /\ schedule[i + 1].type = "class")
              => ~ WideGap(schedule[i], schedule[i + 1])

Chronological(schedule) ==
    \A i \in 1..(Len(schedule) - 1) :
        ItemStart(schedule[i]) <= ItemStart(schedule[i + 1])

\* C23: get_daily_schedule_with_gaps returns one class item for every entry
\* of the day whatever its status, a free_time item between two adjacent
\* entries exactly when the gap between them is >= the threshold, and the
\* items in non-decreasing order of start time.
C23_AgendaChronological ==
    out.op = "get_daily_schedule_with_gaps" =>
        /\ ClassItemPerEntry(out.result, out.course, out.day)
        /\ FreeTimeExactlyInWideGaps(out.result)
        /\ Chronological(out.result)

\* C23 without the order of the items
C23_ItemsAndGaps ==
    out.op = "get_daily_schedule_with_gaps" =>
        /\ ClassItemPerEntry(out.result, out.course, out.day)
        /\ FreeTimeExactlyInWideGaps(out.result)

\* C23 for days on which no entry ends before it starts
C23_EndsAfterStarts ==
    (out.op = "get_daily_schedule_with_gaps"
        /\ \A i \in DOMAIN out.result :
              (out.result[i].type = "class"
                  /\ parse_time(out.result[i].start_time) # Null
                  /\ parse_time(out.result[i].end_time) # Null)
                  => parse_time(out.result[i].start_time)
                         <= parse_time(out.result[i].end_time))
        => C23_AgendaChronological

----------------------------------------------------------------------------
(* Properties of the scorer                                                *)

\* what the scorer gives the same activity for the same request when the
\* activity has no duration, that is, without the efficiency component
ScoreWithoutEfficiency ==
    calculate_activity_score([out.activity EXCEPT !.duration_minutes = 0],
        out.course, out.duration_minutes, out.filters.category,
        out.filters.difficulty, out.filters.mode)

EfficiencyComponent == out.score - ScoreWithoutEfficiency

\* C24: for positive activity durations and budgets the efficiency
\* component of calculate_activity_score is
\* min(20, floor(20 * activity.duration_minutes / duration_minutes)): never
\* above 20, 20 when the activity fills the budget exactly; the score lies in
\* 0..100.
C24_EfficiencyCapped ==
    out.op = "calculate_activity_score" =>
        LET a == out.activity.duration_minutes
            d == out.duration_minutes
            e == EfficiencyComponent
        IN /\ e >= 0
           /\ e <= 20
           /\ 20 * a >= 20 * d => e = 20
           /\ 20 * a < 20 * d => (e * d <= 20 * a /\ 20 * a < (e + 1) * d)
           /\ a = d => e = 20
           /\ out.score >= 0
           /\ out.score <= 100

\* an activity longer than the budget: the cap applies
C24_Witness ==
    /\ out.op = "calculate_activity_score"
    /\ out.activity.duration_minutes > out.duration_minutes
    /\ EfficiencyComponent = 20

\* the quotient is not a whole number and is rounded down
C24_ReachedFloor ==
    /\ out.op = "calculate_activity_score"
    /\ out.activity.duration_minutes = 7
    /\ out.duration_minutes = 30
    /\ EfficiencyComponent = 4

\* every component at its maximum
C24_ReachedHundred ==
    /\ out.op = "calculate_activity_score"
    /\ out.score = 100

\* what the scorer gives for the same request when the activity's course is
\* replaced by the given one ("" is no course)
ScoreWithCourse(course) ==
    calculate_activity_score([out.activity EXCEPT !.course = course],
        out.course, out.duration_minutes, out.filters.category,
        out.filters.difficulty, out.filters.mode)

\* C25: for a request whose course is not "General", an activity tagged
\* "General" gets the same course component from calculate_activity_score
\* as an activity with no course (+15).
C25_GeneralIsUniversal ==
    (out.op = "calculate_activity_score"
        /\ out.activity.course = "General"
        /\ out.course # "General") =>
            /\ out.score = ScoreWithCourse("")
            /\ out.score = ScoreWithCourse("Physics") + 15

\* an activity with no course gets 15 points more than one of another course
C25_NoCourseIsUniversal ==
    (out.op = "calculate_activity_score" /\ out.activity.course = "") =>
        out.score = ScoreWithCourse("Physics") + 15

----------------------------------------------------------------------------
(* Properties of the slots on irregular timetables                         *)

\* the entries of the course on the day, whatever their status
EntriesOn(course, day) ==
    {e \in SeqToSet(get_timetable_by_course(course)) :
        Lower(e.day) = Lower(day)}

\* C26: every slot detect_all_downtime_for_course emits has its start_time
\* strictly before its end_time and duration_minutes >= the threshold, also
\* when entries of the day overlap, are duplicated or end before they start.
C26_SlotsPositive ==
    out.op = "detect_all_downtime_for_course" =>
        \A i \in DOMAIN out.result :
            /\ parse_time(out.result[i].start_time)
                   < parse_time(out.result[i].end_time)
            /\ out.result[i].duration_minutes >= DOWNTIME_THRESHOLD
            /\ out.result[i].duration_minutes > 0

\* a day with a cancelled class and a scheduled class that end before they
\* start, and a slot emitted
C26_Witness ==
    /\ out.op = "detect_all_downtime_for_course"
    /\ \E e \in EntriesOn(out.course, out.day) :
          parse_time(e.end_time) < parse_time(e.start_time)
    /\ out.result # <<>>

\* a class entered twice, and a slot after it
C26_ReachedDuplicate ==
    /\ out.op = "detect_all_downtime_for_course"
    /\ \E a, b \in EntriesOn(out.course, out.day) :
          /\ a.id # b.id
          /\ a.status = "scheduled"
          /\ b.status = "scheduled"
          /\ a.start_time = b.start_time
          /\ a.end_time = b.end_time
    /\ out.result # <<>>

\* two classes that overlap, and a slot after them
C26_ReachedOverlap ==
    /\ out.op = "detect_all_downtime_for_course"
    /\ \E a, b \in EntriesOn(out.course, out.day) :
          /\ a.status = "scheduled"
          /\ b.status = "scheduled"
          /\ parse_time(a.start_time) < parse_time(b.start_time)
          /\ parse_time(b.start_time) < parse_time(a.end_time)
    /\ out.result # <<>>

----------------------------------------------------------------------------
(* Properties of the detector's threads                                    *)

\* the detection loops that are inside their while loop
LiveLoops == {t \in LoopThreads : threads[t].pc \in {"sweep", "sleep"}}

\* C27: after any sequence of start_detection and stop_detection calls at
\* most one detection-loop thread is executing sweeps, also after
\* stop_detection and start_detection within the old loop's sleep and after
\* two start_detection calls that race on detection_running.
C27_OneLoopSweeping ==
    Cardinality(LiveLoops) <= 1

\* C27 for one caller, whose calls follow each other
C27_OneCaller ==
    (threads[2].calls = 0 /\ threads[2].kind = "caller")
        => Cardinality(LiveLoops) <= 1

\* C27 when stop_detection is never called: two start_detection calls race
C27_NoStop ==
    (\A c \in Callers : threads[c].kind = "caller" /\ threads[c].stops = 0)
        => Cardinality(LiveLoops) <= 1

\* C27 for one caller that never calls stop_detection
C27_OneCallerNoStop ==
    (/\ \A c \in Callers : threads[c].kind = "caller" /\ threads[c].stops = 0
     /\ threads[2].calls = 0)
        => Cardinality(LiveLoops) <= 1

----------------------------------------------------------------------------
(* Properties of the cancel route                                          *)

\* the entries cancelled through the route whose trigger has returned
RouteCancelled ==
    {e \in SeqToSet(timetable) :
        /\ e.status = "cancelled"
        /\ \A r \in DOMAIN threads :
              threads[r].pc = "trigger" => threads[r].entry_id # e.id}

\* C28: a class cancelled through the cancel route while the detection loop
\* holds a snapshot in which it was scheduled brings each student of the
\* course exactly one cancellation notification in total; the next
\* _check_for_cancellations does not handle it again.
C28_RouteNotifiesOnce ==
    \A e \in SeqToSet(timetable) : \A u \in get_users_by_role("student") :
        /\ Cardinality(CancellationNotes(u.id, e.id)) <= 1
        /\ e \in RouteCancelled =>
              Cardinality(CancellationNotes(u.id, e.id)) = 1

\* C28 as long as the loop has taken no snapshot after the cancellation
C28_BeforeNextSweep ==
    \A e \in SeqToSet(timetable) : \A u \in get_users_by_role("student") :
        (\A c \in DOMAIN last_timetable_state :
            \A i \in DOMAIN last_timetable_state[c] :
                last_timetable_state[c][i].id = e.id
                    => last_timetable_state[c][i].status = "scheduled")
            => /\ Cardinality(CancellationNotes(u.id, e.id)) <= 1
               /\ e \in RouteCancelled =>
                     Cardinality(CancellationNotes(u.id, e.id)) = 1

----------------------------------------------------------------------------
(* Properties of the two current-slot look-ups                             *)

\* C29: for the same timetable, day and instant (threshold 30),
\* RealTimeDetector._get_current_free_slot returns a slot if and only if
\* get_current_free_slot of the downtime service does, with the same start,
\* end and reason.
C29_SameCurrentSlot ==
    out.op = "current_free_slot_both" =>
        /\ out.detector # Raised
        /\ out.detector = NoSlot <=> out.service = NoSlot
        /\ (out.detector # NoSlot /\ out.service # NoSlot) =>
              /\ parse_time(out.detector.start_time)
                     = parse_time(out.service.start_time)
              /\ parse_time(out.detector.end_time)
                     = parse_time(out.service.end_time)
              /\ out.detector.reason = out.service.reason

\* C29 for days without a cancelled class
C29_NoCancelledClass ==
    (out.op = "current_free_slot_both"
        /\ \A e \in EntriesOn(out.course, out.day) : e.status # "cancelled")
        => C29_SameCurrentSlot

\* C29 which of the two returns a slot, whatever the slot
C29_SlotIffSlot ==
    out.op = "current_free_slot_both" =>
        (out.detector = NoSlot <=> out.service = NoSlot)

----------------------------------------------------------------------------
(* Properties of the upcoming-free-time alerts                             *)

\* the "free time in N min" alerts a student has for a slot of a day
AlertsOf(user_id) ==
    {i \in DOMAIN notifications :
        /\ notifications[i].kind = "free_time_soon"
        /\ notifications[i].user_id = user_id}

SameSlotAlerts(i, j) ==
    /\ notifications[i].slot = notifications[j].slot
    /\ notifications[i].date = notifications[j].date

\* C30: with send_upcoming_free_time_alerts run every 5 minutes and
\* alerting when 5 <= starts_in_minutes <= 10, a student gets at most one
\* "free time in N min" alert for an upcoming slot.
C30_OneAlertPerSlot ==
    \A u \in get_users_by_role("student") :
        \A i, j \in AlertsOf(u.id) : SameSlotAlerts(i, j) => i = j

\* two alerts of a student for one slot are those of two consecutive runs,
\* 10 and 5 minutes before the slot; there is never a third
C30_AtMostTwo ==
    \A u \in get_users_by_role("student") :
        \A i, j \in AlertsOf(u.id) :
            (SameSlotAlerts(i, j) /\ i < j) =>
                /\ notifications[i].starts_in = 10
                /\ notifications[j].starts_in = 5
                /\ \A k \in AlertsOf(u.id) :
                      SameSlotAlerts(i, k) => k \in {i, j}

\* C30 for runs that do not fall in the first minute of the window: no run
\* sees the slot 10 minutes ahead
C30_OffTheMinute ==
    (\A i \in DOMAIN notifications : notifications[i].starts_in # 10)
        => C30_OneAlertPerSlot

====
